---- MODULE Spec2Model ----
(***************************************************************************)
(* Model of the k6 performance-test pipeline of intelligent-test-platform: *)
(*   - K6Executor (backend/app/services/k6_executor.py): script cleaning,  *)
(*     temporary files, subprocess run, exit-code mapping, cleanup;        *)
(*   - K6TestGenerator (ai_engine/processors/k6_test_generator.py):        *)
(*     parameter extraction, stage composition, response parsing,          *)
(*     script cleaning and validation.                                     *)
(* Scripts are sequences of lines, a line is a sequence of statements      *)
(* (what the cleaning regexes can tell apart); descriptions and LLM        *)
(* responses are sequences of tokens (what the extraction regexes can tell *)
(* apart).                                                                 *)
(***************************************************************************)
EXTENDS Integers, Sequences, FiniteSets, TLC

VARIABLES
    \* ---- K6Executor.execute ----
    pc,                 \* position inside execute
    script_content,     \* argument: the script (sequence of lines)
    output_format,      \* argument: "summary" | "json" | "full" | other
    written_script,     \* content of the temporary script file
    fs,                 \* temporary paths of this call that exist on disk
    cmd,                \* the k6 command line (sequence of arguments)
    proc,               \* outcome of subprocess.run
    execution_result,   \* the dict returned to the caller
    raised,             \* TRUE when execute propagated an exception
    \* ---- _clean_k6_script applied repeatedly ----
    san_in,             \* the script handed to the sanitizers
    gen_once, gen_twice,    \* generator's cleaner applied once / twice
    exec_once, exec_twice,  \* executor's cleaner applied once / twice
    san_n,              \* how many times the cleaners have been applied
    \* ---- K6TestGenerator.generate ----
    gpc,                \* position inside generate
    generation_mode,    \* argument: "ai" | "regex"
    original_description,   \* argument: the description as given
    test_description,   \* the description the method works on
    target_url,         \* argument: a URL, or NoUrl
    load_config,        \* argument: dict with optional vus, duration
    llm_params_reply,   \* what the service answers to the parameter prompt
    llm_script_reply,   \* what the service answers to the script prompt
    regex_params,       \* result of _extract_parameters_from_description
    extracted_params,   \* extracted_params of _generate_by_regex
    ai_fallback_called, \* _extract_parameters_with_ai has been called
    final_values,       \* final_vus, final_duration, final_url of the prompt
    stages_config,      \* stages_config of _build_generation_prompt
    k6_script,          \* the dict returned to the caller
    gen_raised,         \* TRUE when generate propagated an exception
    \* ---- K6AnalysisService.analyze_performance_results ----
    apc,                \* position inside analyze_performance_results
    k6_metrics,         \* argument: the metrics of the run
    ai_reply,           \* what the analysis service does with the request
    analysis_result,    \* the dict returned to the caller
    \* ---- K6Executor._parse_k6_summary_json ----
    npc,                \* position: before / after the call
    summary_data,       \* argument: the summary export of k6
    summary_metrics,    \* the metrics returned
    \* ---- response times in the prompt and the report ----
    rpc,                \* position: idle / prompted / key_metrics / done
    http_req_duration,  \* the http_req_duration metric of the run (ms)
    prompt_seconds,     \* response times written into the prompt
    key_metric_cells,   \* response-time cells of the key-metrics table
    summary_value,      \* a response time carried by the payload
    summary_cell,       \* the table cell rendered from it
    \* ---- the string strategies of analyze_performance_results ----
    ppc,                \* which strategy is tried next
    payload,            \* the analysis payload, a string
    parsed_payload,     \* analysis_data after the strategies
    \* ---- one performance test record and its tasks ----
    pt_status,             \* performance_test.status
    pt_results,            \* performance_test.results
    pt_analysis,           \* performance_test.analysis
    pt_analysis_generated_at,  \* performance_test.analysis_generated_at
    k6_script_set,      \* performance_test.k6_script is not blank
    executor_ready,     \* the module's k6_executor is not None
    exec_tasks,         \* execute_performance_test_async tasks
    auto_tasks,         \* _auto_analyze_performance_test tasks
    manual,             \* the analyze endpoint: idle / awaiting
    analyses,           \* analysis calls that have returned
    http_status            \* status code of the last HTTP response

execVars == <<pc, script_content, output_format, written_script, fs, cmd,
              proc, execution_result, raised>>
sanVars  == <<san_in, gen_once, gen_twice, exec_once, exec_twice, san_n>>
genVars  == <<gpc, generation_mode, original_description, test_description,
              target_url, load_config, llm_params_reply, llm_script_reply,
              regex_params, extracted_params, ai_fallback_called,
              final_values, stages_config, k6_script, gen_raised>>
genInputs == <<generation_mode, original_description, target_url, load_config,
               llm_params_reply, llm_script_reply>>
anaVars  == <<apc, k6_metrics, ai_reply, analysis_result>>
normVars == <<npc, summary_data, summary_metrics>>
repVars  == <<rpc, http_req_duration, prompt_seconds, key_metric_cells,
              summary_value, summary_cell>>
payVars  == <<ppc, payload, parsed_payload>>
lifeVars == <<pt_status, pt_results, pt_analysis, pt_analysis_generated_at,
              k6_script_set, executor_ready, exec_tasks, auto_tasks, manual,
              analyses, http_status>>
vars     == <<execVars, sanVars, genVars, anaVars, normVars, repVars,
              payVars, lifeVars>>
nonExecVars == <<sanVars, genVars, anaVars, normVars, repVars, payVars,
              lifeVars>>
nonSanVars  == <<execVars, genVars, anaVars, normVars, repVars, payVars,
              lifeVars>>
nonGenVars  == <<execVars, sanVars, anaVars, normVars, repVars, payVars,
              lifeVars>>
nonAnaVars  == <<execVars, sanVars, genVars, normVars, repVars, payVars,
              lifeVars>>
nonNormVars == <<execVars, sanVars, genVars, anaVars, repVars, payVars,
              lifeVars>>
nonRepVars  == <<execVars, sanVars, genVars, anaVars, normVars, payVars,
              lifeVars>>
nonPayVars  == <<execVars, sanVars, genVars, anaVars, normVars, repVars,
              lifeVars>>
nonLifeVars == <<execVars, sanVars, genVars, anaVars, normVars, repVars,
              payVars>>

(***************************************************************************)
(* Scripts.                                                                *)
(***************************************************************************)
\* Bounds of the script space.
MaxLines == 3

\* One statement of a line.  k: "decl"  const v = new ctor('m' ...
\*                              "new"   new ctor('m' ...      (no binding)
\*                              "use"   v.<member>   (dotw: a word follows
\*                                                    the dot immediately)
\*                              "ref"   v            (no member access)
\*                              "text"  anything else
\* close: the closing parenthesis follows the quoted name directly.
Stmt(k, v, ctor, m, close) ==
    [k |-> k, v |-> v, ctor |-> ctor, m |-> m, close |-> close]

Decl(v, ctor, m, close) == Stmt("decl", v, ctor, m, close)
New(ctor, m, close)     == Stmt("new", "", ctor, m, close)
Use(v, dotw)            == Stmt("use", v, "", "", dotw)
Ref(v)                  == Stmt("ref", v, "", "", FALSE)
Text                    == Stmt("text", "", "", "", FALSE)

builtin_metrics ==
    {"data_sent", "data_received", "http_req_duration", "http_reqs",
     "iterations", "vus", "http_req_failed", "http_req_waiting",
     "http_req_connecting", "http_req_tls_handshaking", "http_req_sending",
     "http_req_receiving", "http_req_blocked", "iteration_duration",
     "vus_max"}

MetricCtors == {"Counter", "Trend", "Rate", "Gauge", "Metric"}

\* The lines scripts are drawn from.
ScriptLines ==
    { <<Decl("a", "Counter", "vus", TRUE)>>,            \* const a = new Counter('vus');
      <<Decl("a", "Trend", "http_reqs", FALSE)>>,       \* const a = new Trend('http_reqs', true);
      <<Decl("b", "Counter", "my_metric", TRUE)>>,      \* const b = new Counter('my_metric');
      <<New("Counter", "vus", TRUE)>>,                  \* new Counter('vus');
      <<Text, New("Counter", "vus", TRUE)>>,            \* foo(new Counter('vus'));
      <<New("Metric", "vus", FALSE)>>,                  \* new Metric('vus', 1);
      <<Use("a", TRUE)>>,                               \* a.add(1);
      <<Use("a", FALSE)>>,                              \* a. add(1);
      <<Use("b", TRUE)>>,                               \* b.add(1);
      <<Ref("a")>>,                                     \* foo(a);
      <<Decl("a", "Counter", "vus", TRUE),
        Decl("b", "Counter", "vus", TRUE)>>,            \* two declarations on one line
      <<Decl("b", "Counter", "http_reqs", TRUE),
        Use("b", TRUE)>>,                               \* const b = new Counter('http_reqs'); b.add(1);
      <<Text>> }                                        \* sleep(1);

SeqsUpTo(S, n) == UNION { [1..k -> S] : k \in 0..n }

\* str.split('\n') never returns an empty list: the empty string is one
\* empty line; '\n'.join of no lines is the empty string.
EmptyScript == << <<>> >>
Join(lines) == IF lines = <<>> THEN EmptyScript ELSE lines

Scripts == { Join(ls) : ls \in SeqsUpTo(ScriptLines, MaxLines) }

(***************************************************************************)
(* _clean_k6_script: the generator's and the executor's cleaners.          *)
(***************************************************************************)
IsBuiltin(m) == m \in builtin_metrics

\* (const|let|var)\s+(\w+)\s*=\s*new\s+(Counter|Trend|Rate|Gauge|Metric)
\*   \s*\(\s*['"]metric['"]     -- no closing parenthesis required
MatchesDeclPrefix(st) ==
    st.k = "decl" /\ st.ctor \in MetricCtors /\ IsBuiltin(st.m)

\* First pass, one line: for every built-in metric re.search returns the
\* leftmost declaration of that metric on the line; its variable is kept.
DeclaredVars(line) ==
    { line[i].v : i \in { i \in DOMAIN line :
          /\ MatchesDeclPrefix(line[i])
          /\ \A j \in 1..(i-1) :
                ~(MatchesDeclPrefix(line[j]) /\ line[j].m = line[i].m) } }

variables_to_remove(lines) ==
    UNION { DeclaredVars(lines[i]) : i \in DOMAIN lines }

\* new\s+Counter\s*\(\s*['"]metric['"]\s*\)  (also Trend, Rate, Gauge): the
\* closing parenthesis is required; new\s+Metric\s*\(\s*['"]metric['"]: not.
MatchesNewCall(st) ==
    /\ st.k \in {"decl", "new"}
    /\ IsBuiltin(st.m)
    /\ \/ st.ctor \in {"Counter", "Trend", "Rate", "Gauge"} /\ st.close
       \/ st.ctor = "Metric"

\* Generator, second pass: the six patterns are searched anywhere in the
\* line; a variable use is  \bvar\s*\.
GenDefinitionLine(line) ==
    \E i \in DOMAIN line : MatchesDeclPrefix(line[i]) \/ MatchesNewCall(line[i])

GenUsesVariable(line, removed) ==
    \E i \in DOMAIN line : line[i].k = "use" /\ line[i].v \in removed

GenShouldSkip(line, removed) ==
    GenDefinitionLine(line) \/ GenUsesVariable(line, removed)

\* Executor, second pass: the declaration pattern requires the closing
\* parenthesis; the bare patterns are anchored at the line start (^\s*new);
\* a variable use is  \bvar\s*\.\w+
ExecDefinitionLine(line) ==
    \/ \E i \in DOMAIN line : MatchesDeclPrefix(line[i]) /\ line[i].close
    \/ /\ line # <<>>
       /\ line[1].k = "new"
       /\ MatchesNewCall(line[1])

ExecUsesVariable(line, removed) ==
    \E i \in DOMAIN line :
        line[i].k = "use" /\ line[i].close /\ line[i].v \in removed

ExecShouldSkip(line, removed) ==
    ExecDefinitionLine(line) \/ ExecUsesVariable(line, removed)

\* A cleaner that deletes from the list it is iterating over: the line after
\* a removed line is never examined.
RECURSIVE KeepAfterRemoval(_, _, _)
KeepAfterRemoval(lines, removed, i) ==
    IF i > Len(lines) THEN <<>>
    ELSE IF GenShouldSkip(lines[i], removed)
         THEN (IF i + 1 <= Len(lines) THEN <<lines[i+1]>> ELSE <<>>)
              \o KeepAfterRemoval(lines, removed, i + 2)
         ELSE <<lines[i]>> \o KeepAfterRemoval(lines, removed, i + 1)

Generator_clean_removing_in_place(script) ==
    Join(KeepAfterRemoval(script, variables_to_remove(script), 1))

\* K6TestGenerator._clean_k6_script
Generator_clean_k6_script(script) ==
    LET removed == variables_to_remove(script)
    IN  Join(SelectSeq(script, LAMBDA line : ~GenShouldSkip(line, removed)))

\* K6Executor._clean_k6_script
Executor_clean_k6_script(script) ==
    LET removed == variables_to_remove(script)
    IN  Join(SelectSeq(script, LAMBDA line : ~ExecShouldSkip(line, removed)))

(***************************************************************************)
(* K6Executor.execute                                                      *)
(***************************************************************************)
\* Bounds of the executor's inputs.
MaxExecLines == 1
MaxExitCode  == 2

ExecScripts   == { sc \in Scripts : Len(sc) <= MaxExecLines }
OutputFormats == {"summary", "json", "full", "csv"}
AdditionalArgs == { <<>>, <<"--quiet">> }
\* 99: thresholds failed; 107: script exception; -9: killed by a signal.
ExitCodes     == (0..MaxExitCode) \cup {-9, 98, 99, 100, 107}

script_path       == "tmp.js"
temp_dir          == "tmpdir"
summary_json_path == "tmpdir/summary.json"
json_output_path  == "tmpdir/output.json"

EmptyDict == [k \in {} |-> ""]
Has(d, k) == k \in DOMAIN d
NoProc    == [kind |-> "none", returncode |-> 0, stderr |-> "",
              summary_file |-> "absent"]

\* cmd = [k6, "run", script_path] + format options + additional_args
BuildCommand(fmt, extra) ==
    <<"k6", "run", script_path>>
    \o (IF fmt = "summary" \/ fmt = "json"
          THEN <<"--summary-export", summary_json_path>>
        ELSE IF fmt = "full"
          THEN <<"--out", "json=" \o json_output_path>>
        ELSE <<>>)
    \o extra

InCmd(c, arg) == \E i \in DOMAIN c : c[i] = arg

\* A threshold failure reported like any other non-zero exit.
StatusThresholdsAsFailure(returncode) ==
    IF returncode = 0 THEN "completed" ELSE "failed"

\* The exit-code ladder of execute.
StatusOfReturncode(returncode) ==
    IF returncode = 0 THEN "completed"
    ELSE IF returncode = 99 THEN "completed"
    ELSE IF returncode = 1 THEN "failed"
    ELSE "failed"

\* A timeout result that keeps what the process had printed so far.
TimeoutResultWithPartialOutput ==
    ("status" :> "timeout") @@ ("error" :> "k6 timed out")
      @@ ("executed_at" :> "now") @@ ("stdout" :> "partial output")

\* except subprocess.TimeoutExpired
TimeoutResult ==
    ("status" :> "timeout") @@ ("error" :> "k6 timed out")
      @@ ("executed_at" :> "now")

\* except Exception as e
ErrorResult(msg) ==
    ("status" :> "error") @@ ("error" :> msg) @@ ("executed_at" :> "now")

\* What k6 left at summary_json_path: nothing, a summary, text that is no
\* JSON, JSON that is no object.
SummaryFiles == {"absent", "valid", "corrupt", "not_object"}

\* A result whose status reports an unreadable summary as an error.
CompletedResultFailingOnSummary(p, fmt, files) ==
    LET unreadable == summary_json_path \notin files
                        \/ p.summary_file # "valid"
        base   == ("status" :> IF unreadable THEN "error"
                               ELSE StatusOfReturncode(p.returncode))
                    @@ ("exit_code" :> p.returncode)
                    @@ ("stdout" :> "k6 output") @@ ("stderr" :> p.stderr)
                    @@ ("script_path" :> script_path)
                    @@ ("executed_at" :> "now")
        summ   == IF unreadable THEN ("summary" :> "error: unparsable")
                  ELSE ("summary" :> "summary data")
                         @@ ("metrics" :> "parsed metrics")
    IN  base @@ summ

\* The result dict built after subprocess.run returned.
CompletedResult(p, fmt, files) ==
    LET status == StatusOfReturncode(p.returncode)
        base   == ("status" :> status) @@ ("exit_code" :> p.returncode)
                    @@ ("stdout" :> "k6 output") @@ ("stderr" :> p.stderr)
                    @@ ("script_path" :> script_path)
                    @@ ("executed_at" :> "now")
        err    == IF p.returncode # 0 /\ p.stderr # "" /\ status = "failed"
                    THEN ("error" :> p.stderr) ELSE EmptyDict
        summ   == IF summary_json_path \in files
                    THEN (IF p.summary_file = "valid"
                            THEN ("summary" :> "summary data")
                                   @@ ("metrics" :> "parsed metrics")
                            ELSE ("summary" :> "error: unparsable"))
                    ELSE ("summary" :> "error: summary file missing")
        full   == IF fmt = "full" /\ json_output_path \in files
                    THEN ("detailed_json_path" :> json_output_path)
                           @@ ("note" :> "detailed json saved")
                    ELSE EmptyDict
    IN  base @@ err @@ summ @@ full

\* execute(script_content, output_format, additional_args): entry and the
\* cleaning of the script.
ExecuteCall ==
    /\ pc = "idle"
    /\ \E sc \in ExecScripts, fmt \in OutputFormats, extra \in AdditionalArgs :
         /\ script_content' = sc
         /\ output_format' = fmt
         /\ cmd' = extra
    /\ pc' = "tempfile"
    /\ UNCHANGED <<written_script, fs, proc, execution_result, raised>>
    /\ UNCHANGED nonExecVars

\* with tempfile.NamedTemporaryFile(delete=False) as f: f.write(cleaned)
\* -- before the try block: a failure propagates to the caller; a failed
\* write leaves the created file behind.
CreateScriptFile ==
    /\ pc = "tempfile"
    /\ \E outcome \in {"ok", "create_fails", "write_fails"} :
         \/ /\ outcome = "ok"
            /\ fs' = fs \cup {script_path}
            /\ written_script' = Executor_clean_k6_script(script_content)
            /\ pc' = "mkdtemp"
            /\ UNCHANGED raised
         \/ /\ outcome = "create_fails"
            /\ raised' = TRUE
            /\ pc' = "done"
            /\ UNCHANGED <<fs, written_script>>
         \/ /\ outcome = "write_fails"
            /\ fs' = fs \cup {script_path}
            /\ raised' = TRUE
            /\ pc' = "done"
            /\ UNCHANGED written_script
    /\ UNCHANGED <<script_content, output_format, cmd, proc, execution_result>>
    /\ UNCHANGED nonExecVars

\* temp_dir = tempfile.mkdtemp()  -- also before the try block.
MakeTempDir ==
    /\ pc = "mkdtemp"
    /\ \/ /\ fs' = fs \cup {temp_dir}
          /\ pc' = "run"
          /\ UNCHANGED raised
       \/ /\ raised' = TRUE
          /\ pc' = "done"
          /\ UNCHANGED fs
    /\ UNCHANGED <<script_content, output_format, written_script, cmd, proc,
                   execution_result>>
    /\ UNCHANGED nonExecVars

\* Build the command and subprocess.run(cmd, timeout=3600).  k6 writes the
\* files its command line asks for.
RunK6 ==
    /\ pc = "run"
    /\ cmd' = BuildCommand(output_format, cmd)
    /\ \/ /\ proc' = [NoProc EXCEPT !.kind = "timeout"]
          /\ execution_result' = TimeoutResult
          /\ pc' = "finally"
          /\ UNCHANGED fs
       \/ /\ proc' = [NoProc EXCEPT !.kind = "exception"]
          /\ execution_result' = ErrorResult("cannot launch k6")
          /\ pc' = "finally"
          /\ UNCHANGED fs
       \/ \E rc \in ExitCodes, err \in {"", "stderr text"},
             sf \in SummaryFiles, detail \in BOOLEAN :
            /\ sf # "absent" => InCmd(cmd', "--summary-export")
            /\ detail => InCmd(cmd', "--out")
            /\ proc' = [kind |-> "exit", returncode |-> rc, stderr |-> err,
                        summary_file |-> sf]
            /\ fs' = fs \cup (IF sf # "absent" THEN {summary_json_path} ELSE {})
                        \cup (IF detail THEN {json_output_path} ELSE {})
            /\ pc' = "collect"
            /\ UNCHANGED execution_result
    /\ UNCHANGED <<script_content, output_format, written_script, raised>>
    /\ UNCHANGED nonExecVars

\* Status mapping, summary read-back, detailed output path; return.
CollectResult ==
    /\ pc = "collect"
    /\ execution_result' = CompletedResult(proc, output_format, fs)
    /\ pc' = "finally"
    /\ UNCHANGED <<script_content, output_format, written_script, fs, cmd,
                   proc, raised>>
    /\ UNCHANGED nonExecVars

\* finally: os.unlink(script_path); shutil.rmtree(temp_dir)
Cleanup ==
    /\ pc = "finally"
    /\ fs' = {}
    /\ pc' = "done"
    /\ UNCHANGED <<script_content, output_format, written_script, cmd, proc,
                   execution_result, raised>>
    /\ UNCHANGED nonExecVars

(***************************************************************************)
(* The cleaners applied once and twice to a script.                        *)
(***************************************************************************)
CleanOnce ==
    /\ san_n = 0
    /\ gen_once' = Generator_clean_k6_script(san_in)
    /\ exec_once' = Executor_clean_k6_script(san_in)
    /\ san_n' = 1
    /\ UNCHANGED <<san_in, gen_twice, exec_twice>>
    /\ UNCHANGED nonSanVars

CleanAgain ==
    /\ san_n = 1
    /\ gen_twice' = Generator_clean_k6_script(gen_once)
    /\ exec_twice' = Executor_clean_k6_script(exec_once)
    /\ san_n' = 2
    /\ UNCHANGED <<san_in, gen_once, exec_once>>
    /\ UNCHANGED nonSanVars

(***************************************************************************)
(* Test descriptions: sequences of tokens.                                 *)
(*   num    a run of digits (n is its value)                               *)
(*   sp     white space                                                    *)
(*   punct  a full-width comma                                             *)
(*   url    "http://host:" or "https://host/": the start of a URL          *)
(*   s m VU ascii   Latin letters                                          *)
(*   anything else  a CJK word, named by its pinyin: bingfa yonghu ge xuni *)
(*          jia ya dao nei huanman jianshao chixu yunxing miao fenzhong    *)
(*          baochi, and cjk for any other CJK text                         *)
(***************************************************************************)
Tok(t) == [t |-> t, n |-> 0]
Num(n) == [t |-> "num", n |-> n]

LatinKinds == {"s", "m", "VU", "ascii"}
IsCJK(tok) == tok.t \notin ({"num", "sp", "punct", "url"} \cup LatinKinds)
\* \w : digits, letters and CJK characters; a url token starts with "h".
StartsWithWordChar(tok) == tok.t \notin {"sp", "punct"}

\* Pattern elements:  N (\d+), captured     W \s*      L a literal
\*                    O an optional literal B \b after a letter
\*                    Z the digit 0         X .*? (lazy)
PN     == [e |-> "N", t |-> ""]
PW     == [e |-> "W", t |-> ""]
PB     == [e |-> "B", t |-> ""]
PZ     == [e |-> "Z", t |-> ""]
PX     == [e |-> "X", t |-> ""]
PL(t)  == [e |-> "L", t |-> t]
PO(t)  == [e |-> "O", t |-> t]

NoMatch == [ok |-> FALSE, caps |-> <<>>, from |-> 0, to |-> 0]

\* re.match of pattern p[k..] at position pos of d (backtracking order of
\* Python's re: greedy \s* and ?, lazy .*?).
RECURSIVE MatchFrom(_, _, _, _, _)
MatchFrom(d, p, k, pos, caps) ==
    IF k > Len(p) THEN [ok |-> TRUE, caps |-> caps, from |-> 0, to |-> pos]
    ELSE
      LET el   == p[k]
          here == pos <= Len(d)
      IN  CASE el.e = "N" ->
                 IF here /\ d[pos].t = "num"
                   THEN MatchFrom(d, p, k + 1, pos + 1, Append(caps, d[pos].n))
                   ELSE NoMatch
            [] el.e = "Z" ->
                 IF here /\ d[pos].t = "num" /\ d[pos].n = 0
                   THEN MatchFrom(d, p, k + 1, pos + 1, caps)
                   ELSE NoMatch
            [] el.e = "L" ->
                 IF here /\ d[pos].t = el.t
                   THEN MatchFrom(d, p, k + 1, pos + 1, caps)
                   ELSE NoMatch
            [] el.e = "W" ->
                 IF here /\ d[pos].t = "sp"
                   THEN MatchFrom(d, p, k, pos + 1, caps)
                   ELSE MatchFrom(d, p, k + 1, pos, caps)
            [] el.e = "O" ->
                 IF here /\ d[pos].t = el.t
                   THEN LET r == MatchFrom(d, p, k + 1, pos + 1, caps)
                        IN  IF r.ok THEN r ELSE MatchFrom(d, p, k + 1, pos, caps)
                   ELSE MatchFrom(d, p, k + 1, pos, caps)
            [] el.e = "B" ->
                 IF here /\ StartsWithWordChar(d[pos])
                   THEN NoMatch
                   ELSE MatchFrom(d, p, k + 1, pos, caps)
            [] el.e = "X" ->
                 LET r == MatchFrom(d, p, k + 1, pos, caps)
                 IN  IF r.ok THEN r
                     ELSE IF here THEN MatchFrom(d, p, k, pos + 1, caps)
                     ELSE NoMatch

\* re.search: the leftmost position where the pattern matches.
RECURSIVE SearchFrom(_, _, _)
SearchFrom(d, p, i) ==
    IF i > Len(d) THEN NoMatch
    ELSE LET r == MatchFrom(d, p, 1, i, <<>>)
         IN  IF r.ok THEN [r EXCEPT !.from = i] ELSE SearchFrom(d, p, i + 1)

Search(d, p) == SearchFrom(d, p, 1)

\* for pattern in patterns: match = re.search(...); if match: ...; break
\* -- the index of the first pattern that matches, 0 when none does.
RECURSIVE FirstMatching(_, _, _)
FirstMatching(d, patterns, i) ==
    IF i > Len(patterns) THEN 0
    ELSE IF Search(d, patterns[i]).ok THEN i
    ELSE FirstMatching(d, patterns, i + 1)

\* The pattern list with "N 个用户" tried before "N 并发用户".
vu_patterns_count_phrase_first ==
    << <<PN, PW, PL("ge"), PL("yonghu")>>,
       <<PN, PW, PL("bingfa"), PL("yonghu")>>,
       <<PN, PW, PL("VU"), PO("s")>>,
       <<PN, PW, PL("xuni"), PL("yonghu")>>,
       <<PN, PW, PL("yonghu"), PL("bingfa")>>,
       <<PN, PW, PL("bingfa")>>,
       <<PL("bingfa"), PW, PN>>,
       <<PN, PW, PL("yonghu")>>,
       <<PL("dao"), PW, PN, PW, PL("yonghu")>>,
       <<PL("jia"), PL("ya"), PL("dao"), PW, PN>> >>

vu_patterns ==
    << <<PN, PW, PL("bingfa"), PL("yonghu")>>,          \* (\d+)\s*并发用户
       <<PN, PW, PL("ge"), PL("yonghu")>>,            \* (\d+)\s*个用户
       <<PN, PW, PL("VU"), PO("s")>>,               \* (\d+)\s*VUs?
       <<PN, PW, PL("xuni"), PL("yonghu")>>,          \* (\d+)\s*虚拟用户
       <<PN, PW, PL("yonghu"), PL("bingfa")>>,          \* (\d+)\s*用户并发
       <<PN, PW, PL("bingfa")>>,                      \* (\d+)\s*并发
       <<PL("bingfa"), PW, PN>>,                      \* 并发\s*(\d+)
       <<PN, PW, PL("yonghu")>>,                      \* (\d+)\s*用户
       <<PL("dao"), PW, PN, PW, PL("yonghu")>>,        \* 到\s*(\d+)\s*用户
       <<PL("jia"), PL("ya"), PL("dao"), PW, PN>> >>  \* 加压到\s*(\d+)

ramp_up_with_target_patterns ==
    << <<PN, PW, PO("s"), PW, PL("jia"), PL("dao"), PW, PN, PW, PL("yonghu")>>,
       <<PN, PW, PL("miao"), PW, PL("jia"), PL("dao"), PW, PN, PW, PL("yonghu")>>,
       <<PN, PW, PO("s"), PW, PL("nei"), PW, PL("huanman"), PW, PL("jia"), PL("ya"),
         PW, PL("dao"), PW, PN>>,
       <<PN, PW, PL("miao"), PW, PL("nei"), PW, PL("huanman"), PW, PL("jia"), PL("ya"),
         PW, PL("dao"), PW, PN>> >>

ramp_up_patterns ==
    << <<PN, PW, PO("s"), PW, PL("jia"), PL("dao"), PW, PL("num")>>,
       <<PN, PW, PL("miao"), PW, PL("jia"), PL("dao"), PW, PL("num")>>,
       <<PN, PW, PO("s"), PW, PL("nei"), PW, PL("huanman"), PW, PL("jia"), PL("ya")>>,
       <<PN, PW, PL("miao"), PW, PL("nei"), PW, PL("huanman"), PW, PL("jia"), PL("ya")>>,
       <<PL("huanman"), PW, PL("jia"), PL("ya"), PX, PN, PW, PL("s")>>,
       <<PL("huanman"), PW, PL("jia"), PL("ya"), PX, PN, PW, PL("miao")>> >>

duration_patterns ==
    << <<PL("chixu"), PW, PL("yunxing"), PW, PN, PW, PL("miao")>>,
       <<PL("chixu"), PW, PL("yunxing"), PW, PN, PW, PL("s")>>,
       <<PL("chixu"), PW, PN, PW, PL("miao")>>,
       <<PN, PW, PL("miao"), PW, PL("chixu")>>,
       <<PN, PW, PL("s"), PB>>,
       <<PN, PW, PL("miao")>>,
       <<PL("chixu"), PW, PN, PW, PL("fenzhong")>>,
       <<PN, PW, PL("fenzhong")>>,
       <<PN, PW, PL("m"), PB>> >>

\* Patterns whose match contains fenzhong or the letter m.
MinutePatterns == {7, 8, 9}

ramp_down_patterns ==
    << <<PN, PW, PO("s"), PW, PL("nei"), PW, PL("huanman"), PW, PL("jianshao")>>,
       <<PN, PW, PL("miao"), PW, PL("nei"), PW, PL("huanman"), PW, PL("jianshao")>>,
       <<PN, PW, PO("s"), PW, PL("nei"), PW, PL("jianshao"), PW, PL("dao"), PW, PZ>>,
       <<PN, PW, PL("miao"), PW, PL("nei"), PW, PL("jianshao"), PW, PL("dao"), PW, PZ>> >>

Seconds(n) == [n |-> n, u |-> "s"]
Minutes(n) == [n |-> n, u |-> "m"]

\* text = ' '.join(text.replace('\n', ' ').split()).strip()
RECURSIVE CollapseSpaces(_, _)
CollapseSpaces(d, i) ==
    IF i > Len(d) THEN <<>>
    ELSE IF d[i].t = "sp" /\ (i = 1 \/ i = Len(d) \/ d[i+1].t = "sp")
           THEN CollapseSpaces(d, i + 1)
         ELSE <<d[i]>> \o CollapseSpaces(d, i + 1)

RECURSIVE StripLeadingSpaces(_)
StripLeadingSpaces(d) ==
    IF d # <<>> /\ d[1].t = "sp" THEN StripLeadingSpaces(Tail(d)) ELSE d

RECURSIVE StripTrailing(_, _)
StripTrailing(d, kind) ==
    IF d # <<>> /\ d[Len(d)].t = kind
      THEN StripTrailing(SubSeq(d, 1, Len(d) - 1), kind) ELSE d

\* K6TestGenerator._clean_requirement_text: the URL and number positions it
\* collects are not used; only white space is normalised.
clean_requirement_text(text) ==
    StripTrailing(StripLeadingSpaces(CollapseSpaces(text, 1)), "sp")

\* https?://[^\s\)一-鿿]+ : from the start of a URL up to the first
\* white space or CJK character.
RECURSIVE UrlEnd(_, _)
UrlEnd(d, i) ==
    IF i + 1 <= Len(d) /\ d[i+1].t # "sp" /\ ~IsCJK(d[i+1])
      THEN UrlEnd(d, i + 1) ELSE i

UrlStarts(d) == { i \in DOMAIN d : d[i].t = "url" }

FirstUrlStart(d) ==
    CHOOSE i \in UrlStarts(d) : \A j \in UrlStarts(d) : i <= j

\* The matched URL with trailing punctuation stripped.
ExtractUrl(d) ==
    LET i == FirstUrlStart(d)
    IN  StripTrailing(SubSeq(d, i, UrlEnd(d, i)), "punct")

\* The first capture of the first pattern of the list that matches.
Cap(d, patterns, idx, c) == Search(d, patterns[idx]).caps[c]

\* K6TestGenerator._extract_parameters_from_description
extract_parameters_from_description(d) ==
    LET vi  == FirstMatching(d, vu_patterns, 1)
        rti == FirstMatching(d, ramp_up_with_target_patterns, 1)
        ri  == FirstMatching(d, ramp_up_patterns, 1)
        di  == FirstMatching(d, duration_patterns, 1)
        rdi == FirstMatching(d, ramp_down_patterns, 1)
        vus  == IF vi > 0 THEN ("vus" :> Cap(d, vu_patterns, vi, 1))
                ELSE EmptyDict
        ramp == IF rti > 0
                  THEN ("ramp_up_duration" :>
                            Seconds(Cap(d, ramp_up_with_target_patterns, rti, 1)))
                       @@ ("ramp_up_target" :>
                            Cap(d, ramp_up_with_target_patterns, rti, 2))
                ELSE IF ri > 0
                  THEN ("ramp_up_duration" :>
                            Seconds(Cap(d, ramp_up_patterns, ri, 1)))
                ELSE EmptyDict
        dur  == IF di > 0
                  THEN ("duration" :>
                          (IF di \in MinutePatterns
                             THEN Minutes(Cap(d, duration_patterns, di, 1))
                             ELSE Seconds(Cap(d, duration_patterns, di, 1))))
                ELSE EmptyDict
        down == IF rdi > 0
                  THEN ("ramp_down_duration" :>
                            Seconds(Cap(d, ramp_down_patterns, rdi, 1)))
                ELSE EmptyDict
        url  == IF UrlStarts(d) # {} THEN ("url" :> ExtractUrl(d))
                ELSE EmptyDict
    IN  vus @@ ramp @@ dur @@ down @@ url

(***************************************************************************)
(* _build_generation_prompt: final values and the stage sequence.          *)
(***************************************************************************)
DefaultVUs             == 10
DefaultDurationSeconds == 30
SlowRampMinSeconds     == 5
SlowRampDivisor        == 10
SecondsPerTenthMinute  == 6
DefaultRampSeconds     == 1

Max(a, b) == IF a >= b THEN a ELSE b

\* d.get(k) is truthy: present and not 0 (numbers); durations and URLs
\* are non-empty strings whenever present.
TruthyInt(d, k) == Has(d, k) /\ d[k] # 0

\* final_vus = extracted.get("vus") or load_config.get("vus"), then 10
FinalVUs(extracted, load_cfg) ==
    IF TruthyInt(extracted, "vus") THEN extracted["vus"]
    ELSE IF TruthyInt(load_cfg, "vus") THEN load_cfg["vus"]
    ELSE DefaultVUs

\* final_duration = extracted.get("duration") or load_config.get("duration"),
\* then "30s"
FinalDuration(extracted, load_cfg) ==
    IF Has(extracted, "duration") THEN extracted["duration"]
    ELSE IF Has(load_cfg, "duration") THEN load_cfg["duration"]
    ELSE Seconds(DefaultDurationSeconds)

\* final_url = extracted.get("url") or target_url       (<<>> is None)
FinalUrl(extracted, url) ==
    IF Has(extracted, "url") /\ extracted["url"] # <<>> THEN extracted["url"]
    ELSE url

\* The three final values of _build_generation_prompt.
FinalValues(extracted, load_cfg, url) ==
    [vus      |-> FinalVUs(extracted, load_cfg),
     duration |-> FinalDuration(extracted, load_cfg),
     url      |-> FinalUrl(extracted, url)]

\* A merge in which the regex values win.
MergedPreferringRegex(regex_extracted, ai_extracted) ==
    regex_extracted @@ ai_extracted

\* extracted_params = {**extracted_params, **ai_extracted}
MergedParameters(regex_extracted, ai_extracted) ==
    ai_extracted @@ regex_extracted

MentionsSlowRamp(d) ==
    \E i \in DOMAIN d : d[i].t \in {"huanman", "zhubu", "jianjin"}

RampUpDuration(extracted, d, final_duration) ==
    IF Has(extracted, "ramp_up_duration") THEN extracted["ramp_up_duration"]
    ELSE IF MentionsSlowRamp(d)
      THEN (IF final_duration.u = "s"
              THEN Seconds(Max(SlowRampMinSeconds,
                               final_duration.n \div SlowRampDivisor))
            ELSE IF final_duration.u = "m"
              THEN Seconds(Max(SlowRampMinSeconds,
                               final_duration.n * SecondsPerTenthMinute))
            ELSE Seconds(SlowRampMinSeconds))
    ELSE Seconds(DefaultRampSeconds)

RampDownDuration(extracted) ==
    IF Has(extracted, "ramp_down_duration") THEN extracted["ramp_down_duration"]
    ELSE Seconds(DefaultRampSeconds)

Stage(duration, target) == [duration |-> duration, target |-> target]

\* A stage builder that ignores the intermediate ramp target.
StagesWithoutRampTarget(extracted, d, load_cfg) ==
    LET final_vus      == FinalVUs(extracted, load_cfg)
        final_duration == FinalDuration(extracted, load_cfg)
    IN  << Stage(RampUpDuration(extracted, d, final_duration), final_vus),
           Stage(final_duration, final_vus),
           Stage(RampDownDuration(extracted), 0) >>

\* stages_config of _build_generation_prompt
StagesConfig(extracted, d, load_cfg) ==
    LET final_vus      == FinalVUs(extracted, load_cfg)
        final_duration == FinalDuration(extracted, load_cfg)
        ramp_up        == RampUpDuration(extracted, d, final_duration)
        ramp_down      == RampDownDuration(extracted)
    IN  IF TruthyInt(extracted, "ramp_up_target")
           /\ extracted["ramp_up_target"] # final_vus
          THEN << Stage(ramp_up, extracted["ramp_up_target"]),
                  Stage(final_duration, final_vus),
                  Stage(ramp_down, 0) >>
          ELSE << Stage(ramp_up, final_vus),
                  Stage(final_duration, final_vus),
                  Stage(ramp_down, 0) >>

(***************************************************************************)
(* LLM responses and scripts as text: a sequence of lines, a line a        *)
(* sequence of statements.  Besides the statements the cleaners tell       *)
(* apart, a response holds                                                 *)
(*   fence_js  ```javascript      fence_jss  ```js       fence  ```        *)
(*   import    import http from 'k6/http';                                 *)
(*   options   export const options = {};                                  *)
(*   fn_open   export default function () {                                *)
(*   check     check(http.get(u), {});                                     *)
(*   close     }                                                           *)
(*   prose     a sentence without any k6 keyword                           *)
(***************************************************************************)
Word(k) == Stmt(k, "", "", "", FALSE)

FenceKinds == {"fence_js", "fence_jss", "fence"}

\* len() of one statement: of the text given for it above, of
\* "const a = new Counter('vus');", "new Counter('vus');", "a.add(1);",
\* "foo(a);" and "sleep(1);".
StmtLen(st) ==
    CASE st.k = "fence_js"  -> 13
      [] st.k = "fence_jss" -> 5
      [] st.k = "fence"     -> 3
      [] st.k = "import"    -> 27
      [] st.k = "options"   -> 26
      [] st.k = "fn_open"   -> 28
      [] st.k = "check"     -> 23
      [] st.k = "close"     -> 1
      [] st.k = "prose"     -> 21
      [] st.k = "decl"      -> 29
      [] st.k = "new"       -> 19
      [] st.k = "use"       -> 9
      [] st.k = "ref"       -> 7
      [] OTHER              -> 9

\* Which of the five k6 keywords occur in the statement.
StmtKeywords(st) ==
    CASE st.k = "import"  -> {"import", "http"}
      [] st.k = "options" -> {"options"}
      [] st.k = "fn_open" -> {"export default function"}
      [] st.k = "check"   -> {"check", "http"}
      [] st.k \in {"decl", "new"} ->
            IF st.m \in {"http_reqs", "http_req_duration", "http_req_failed"}
              THEN {"http"} ELSE {}
      [] OTHER -> {}

OpenBraces(st)  == IF st.k \in {"options", "fn_open", "check"} THEN 1 ELSE 0
CloseBraces(st) == IF st.k \in {"options", "close", "check"} THEN 1 ELSE 0

RECURSIVE SumOver(_, _, _)
SumOver(seq, F(_), i) ==
    IF i > Len(seq) THEN 0 ELSE F(seq[i]) + SumOver(seq, F, i + 1)

LineLen(line)   == SumOver(line, StmtLen, 1)
\* the line breaks count too
ScriptLen(sc)   == SumOver(sc, LineLen, 1) + (Len(sc) - 1)
LineOpen(line)  == SumOver(line, OpenBraces, 1)
LineClose(line) == SumOver(line, CloseBraces, 1)

ScriptKeywords(sc) ==
    UNION { StmtKeywords(sc[i][j]) : <<i, j>> \in
              { <<i, j>> \in (DOMAIN sc) \X (1..5) : j \in DOMAIN sc[i] } }

MinScriptLength == 50
MinKeywords     == 2

\* A validity check that only counts keywords.
ValidIgnoringLength(script) ==
    Cardinality(ScriptKeywords(script)) >= MinKeywords

\* K6TestGenerator._validate_k6_script
validate_k6_script(script) ==
    /\ ScriptLen(script) >= MinScriptLength
    /\ Cardinality(ScriptKeywords(script)) >= MinKeywords

\* str.strip(): leading and trailing blank lines go.
RECURSIVE StripLeadingBlank(_)
StripLeadingBlank(sc) ==
    IF sc # <<>> /\ sc[1] = <<>> THEN StripLeadingBlank(Tail(sc)) ELSE sc

RECURSIVE StripTrailingBlank(_)
StripTrailingBlank(sc) ==
    IF sc # <<>> /\ sc[Len(sc)] = <<>>
      THEN StripTrailingBlank(SubSeq(sc, 1, Len(sc) - 1)) ELSE sc

Strip(sc) == Join(StripTrailingBlank(StripLeadingBlank(sc)))

IsFence(line, kinds) == Len(line) = 1 /\ line[1].k \in kinds
HasFence(sc, kinds)  == \E i \in DOMAIN sc : IsFence(sc[i], kinds)

\* ```<lang>\s*\n(.*?)\n```  searched from line `from`: the leftmost opening
\* fence that has a line starting with ``` at least two lines below it; the
\* group is what lies between the opener and the first such line.
FenceOpeners(sc, kinds, from) ==
    { i \in from..Len(sc) :
        /\ IsFence(sc[i], kinds)
        /\ \E j \in (i+2)..Len(sc) : IsFence(sc[j], FenceKinds) }

FirstOpener(sc, kinds, from) ==
    CHOOSE i \in FenceOpeners(sc, kinds, from) :
        \A k \in FenceOpeners(sc, kinds, from) : i <= k

Closer(sc, i) ==
    CHOOSE j \in (i+2)..Len(sc) :
        /\ IsFence(sc[j], FenceKinds)
        /\ \A k \in (i+2)..(j-1) : ~IsFence(sc[k], FenceKinds)

FenceMatches(sc, kinds) == FenceOpeners(sc, kinds, 1) # {}

FenceGroup(sc, kinds) ==
    LET i == FirstOpener(sc, kinds, 1)
    IN  Strip(SubSeq(sc, i + 1, Closer(sc, i) - 1))

\* re.findall of the fence pattern with any language tag: the last block.
RECURSIVE LastBlockFrom(_, _, _)
LastBlockFrom(sc, from, found) ==
    IF FenceOpeners(sc, FenceKinds, from) = {} THEN found
    ELSE LET i == FirstOpener(sc, FenceKinds, from)
             j == Closer(sc, i)
         IN  LastBlockFrom(sc, j + 1, Strip(SubSeq(sc, i + 1, j - 1)))

StartsWithKind(sc, kinds) ==
    sc # <<>> /\ sc[1] # <<>> /\ sc[1][1].k \in kinds

ExportKinds == {"options", "fn_open"}

Positions(sc, kinds) ==
    { <<i, j>> \in (DOMAIN sc) \X (1..5) :
        j \in DOMAIN sc[i] /\ sc[i][j].k \in kinds }

Before(p, q) == p[1] < q[1] \/ (p[1] = q[1] /\ p[2] <= q[2])

FirstPosition(sc, kinds) ==
    CHOOSE p \in Positions(sc, kinds) :
        \A q \in Positions(sc, kinds) : Before(p, q)

\* cleaned_response[start_pos:].strip()
CutFrom(sc, p) ==
    Strip(<<SubSeq(sc[p[1]], p[2], Len(sc[p[1]]))>>
            \o SubSeq(sc, p[1] + 1, Len(sc)))

\* Step 3: drop what precedes the first  import ... from  or, failing
\* that, the first  export ... options.
DropLeadingProse(sc) ==
    IF StartsWithKind(sc, {"import"}) \/ StartsWithKind(sc, ExportKinds)
      THEN sc
    ELSE IF Positions(sc, {"import"}) # {}
      THEN CutFrom(sc, FirstPosition(sc, {"import"}))
    ELSE IF Positions(sc, {"options"}) # {}
      THEN CutFrom(sc, FirstPosition(sc, ExportKinds))
    ELSE sc

CodeEndLines(sc) ==
    { i \in DOMAIN sc :
        sc[i] # <<>> /\ sc[i][1].k \in ({"close", "import"} \cup ExportKinds) }

\* Step 4: with more } than {, cut after the last line that starts with
\* }, export or import.
DropTrailingProse(sc) ==
    IF SumOver(sc, LineClose, 1) > SumOver(sc, LineOpen, 1)
       /\ CodeEndLines(sc) # {}
      THEN LET last == CHOOSE i \in CodeEndLines(sc) :
                          \A k \in CodeEndLines(sc) : k <= i
           IN  Strip(SubSeq(sc, 1, last))
      ELSE sc

\* re.sub(r'```(?:javascript|js)?\s*\n?', '', text): the fences go, with the
\* white space (blank lines) that follows them.
RECURSIVE RemoveFences(_, _, _)
RemoveFences(sc, i, after_fence) ==
    IF i > Len(sc) THEN <<>>
    ELSE IF IsFence(sc[i], FenceKinds) THEN RemoveFences(sc, i + 1, TRUE)
    ELSE IF after_fence /\ sc[i] = <<>> THEN RemoveFences(sc, i + 1, TRUE)
    ELSE <<sc[i]>> \o RemoveFences(sc, i + 1, FALSE)

Success(script) ==
    ("status" :> "success") @@ ("script" :> script)
      @@ ("script_length" :> ScriptLen(script))

Failure(msg) == ("status" :> "error") @@ ("error" :> msg)

\* Steps 1 to 6 of _extract_script_from_response.
ExtractedCandidate(response) ==
    LET stripped == Strip(response)
        block    == IF FenceMatches(stripped, {"fence_js"})
                      THEN FenceGroup(stripped, {"fence_js"})
                    ELSE IF FenceMatches(stripped, {"fence_jss"})
                      THEN FenceGroup(stripped, {"fence_jss"})
                    ELSE IF FenceMatches(stripped, {"fence"})
                      THEN FenceGroup(stripped, {"fence"})
                    ELSE stripped
        last     == IF HasFence(block, FenceKinds)
                       /\ ~StartsWithKind(block, {"import"})
                      THEN LastBlockFrom(block, 1, block)
                      ELSE block
    IN  Strip(DropTrailingProse(DropLeadingProse(last)))

\* Step 7: the raw response with its fences removed.
FenceStrippedResponse(response) ==
    Strip(RemoveFences(Strip(response), 1, FALSE))

\* An extractor that returns the fence-stripped response without checking it.
extract_without_second_check(response) ==
    IF validate_k6_script(ExtractedCandidate(response))
      THEN Success(ExtractedCandidate(response))
      ELSE Success(FenceStrippedResponse(response))

\* K6TestGenerator._extract_script_from_response  (AI mode)
extract_script_from_response(response) ==
    IF validate_k6_script(ExtractedCandidate(response))
      THEN Success(ExtractedCandidate(response))
    ELSE IF validate_k6_script(FenceStrippedResponse(response))
      THEN Success(FenceStrippedResponse(response))
    ELSE Failure("no valid k6 script in the response")

\* The markdown branch of _parse_k6_script_response: chosen by which fence
\* text occurs in the response; no other pattern is tried when it fails.
FencedCandidate(response) ==
    LET stripped == Strip(response)
        kinds == IF HasFence(stripped, {"fence_js"}) THEN {"fence_js"}
                 ELSE IF HasFence(stripped, {"fence_jss"}) THEN {"fence_jss"}
                 ELSE {"fence"}
    IN  IF FenceMatches(stripped, kinds) THEN FenceGroup(stripped, kinds)
        ELSE stripped

\* A parser that rejects a response failing the validity check.
parse_rejecting_invalid(response) ==
    IF validate_k6_script(FencedCandidate(response))
      THEN Success(FencedCandidate(response))
      ELSE Failure("invalid k6 script")

\* K6TestGenerator._parse_k6_script_response  (regex mode)
parse_k6_script_response(response) ==
    IF validate_k6_script(FencedCandidate(response))
      THEN Success(FencedCandidate(response))
      ELSE Success(Strip(response))

\* After a successful parse both modes clean the script.
WithCleanedScript(result) ==
    IF result["status"] = "success"
      THEN Success(Generator_clean_k6_script(result["script"]))
      ELSE result

(***************************************************************************)
(* K6TestGenerator.generate: the inputs.                                   *)
(***************************************************************************)
\* Bounds of the inputs of generate.
MaxPhrases       == 2
MaxResponseLines == 3

SP == Tok("sp")

\* The phrases descriptions are made of.
Phrases ==
    { <<Tok("cjk"), SP, Tok("url"), Num(8080), SP>>,      \* 对 http://localhost:8080
      <<Tok("url"), Tok("ascii"), Num(5), SP, Tok("miao"), Tok("cjk")>>,
                                                          \* https://a.com/item/5 秒杀接口
      <<Num(100), Tok("bingfa"), Tok("yonghu")>>,         \* 100并发用户
      <<Num(0), Tok("bingfa"), Tok("yonghu")>>,           \* 0并发用户
      <<Tok("bingfa"), Num(100), Tok("punct")>>,          \* 并发100，
      <<Num(50), SP, Tok("ge"), Tok("yonghu")>>,          \* 50 个用户
      <<Tok("punct"), Tok("chixu"), Num(30), Tok("miao")>>,   \* ，持续30秒
      <<Tok("cjk"), SP, Num(3), Tok("s"), SP, Tok("nei"), Tok("jia"),
        Tok("dao"), SP, Num(100), SP, Tok("yonghu"), Tok("punct"),
        Tok("cjk")>>,                    \* 在 3s 内加到 100 用户，然后
      <<Tok("chixu"), SP, Num(30), Tok("s"), SP, Tok("baochi"), SP,
        Num(121), SP, Tok("yonghu")>>,   \* 持续 30s 保持 121 用户
      <<Num(3), Tok("s"), Tok("jia"), Tok("dao"), Num(100), Tok("yonghu")>>,
                                         \* 3s加到100用户
      <<Num(3), Tok("s"), Tok("jia"), Tok("dao"), Num(0), Tok("yonghu")>>,
                                         \* 3s加到0用户
      <<SP, Num(5), Tok("fenzhong"), SP>>,                \* 5分钟
      <<Num(3), Tok("miao"), Tok("nei"), Tok("huanman"), Tok("jianshao")>>,
                                         \* 3秒内缓慢减少
      <<Tok("cjk")>> }                                    \* 压力测试

RECURSIVE Concat(_)
Concat(seqs) == IF seqs = <<>> THEN <<>> ELSE Head(seqs) \o Concat(Tail(seqs))

Descriptions == { Concat(ps) : ps \in SeqsUpTo(Phrases, MaxPhrases) }

\* "100并发用户，持续30秒" and "压力测试"
FixedDescriptions ==
    { <<Num(100), Tok("bingfa"), Tok("yonghu"), Tok("punct"), Tok("chixu"),
        Num(30), Tok("miao")>>,
      <<Tok("cjk")>> }

NoUrl == <<>>
TargetUrls  == { NoUrl, <<Tok("url"), Tok("ascii")>> }
LoadConfigs == { EmptyDict,
                 ("vus" :> 20) @@ ("duration" :> Minutes(2)) }

\* What the text-generation service answers to the parameter prompt:
\*   fails        the call raises, or the reply is not JSON
\*   object       a JSON object (value)
\*   not_object   valid JSON that is no object (a list, a number, a string)
ParamReply(kind, value) == [kind |-> kind, value |-> value]
ParamReplies ==
    { ParamReply("fails", EmptyDict),
      ParamReply("not_object", EmptyDict),
      ParamReply("object", EmptyDict),
      ParamReply("object", ("vus" :> 200)),
      ParamReply("object", ("vus" :> 200) @@ ("duration" :> Seconds(60))) }

\* The lines responses are made of.
ResponseLines ==
    { <<Word("fence_js")>>,
      <<Word("fence")>>,
      <<Word("import"), Word("options"), Word("fn_open"), Word("check"),
        Word("close")>>,                     \* a whole script on one line
      <<Word("prose")>>,
      <<Word("check")>>,
      <<Decl("a", "Counter", "http_reqs", TRUE)>>,
      <<Use("a", TRUE)>>,
      <<Word("close")>>,
      <<Word("prose"), Word("import")>>,
      <<>> }

\* What the service answers to the script prompt: it raises, or a text.
ScriptReply(kind, text) == [kind |-> kind, text |-> text]
ValidScriptText ==
    << <<Word("import"), Word("options"), Word("fn_open"), Word("check"),
         Word("close")>> >>
ScriptReplies ==
    { ScriptReply("fails", EmptyScript) }
    \cup { ScriptReply("text", Join(ls)) :
             ls \in SeqsUpTo(ResponseLines, MaxResponseLines) }

(***************************************************************************)
(* K6TestGenerator.generate, one action per stretch between awaits.        *)
(***************************************************************************)
\* generate -> _generate_by_ai_direct, up to the await of the script.
GenerateByAiDirect ==
    /\ gpc = "idle"
    /\ generation_mode = "ai"
    /\ gpc' = "await_ai_script"
    /\ UNCHANGED <<genInputs, test_description, regex_params, extracted_params,
                   ai_fallback_called, final_values, stages_config, k6_script,
                   gen_raised>>
    /\ UNCHANGED nonGenVars

\* generate -> _generate_by_regex: clean the description, extract with the
\* regexes; when vus or duration is missing, await the AI extraction,
\* otherwise build the prompt (stages) and await the script.
GenerateByRegex ==
    /\ gpc = "idle"
    /\ generation_mode # "ai"
    /\ \E cleaned \in {clean_requirement_text(original_description)} :
       \E extracted \in {extract_parameters_from_description(cleaned)} :
           /\ test_description' = cleaned
           /\ regex_params' = extracted
           /\ extracted_params' = extracted
           /\ IF ~TruthyInt(extracted, "vus") \/ ~Has(extracted, "duration")
                THEN /\ ai_fallback_called' = TRUE
                     /\ gpc' = "await_params"
                     /\ UNCHANGED <<final_values, stages_config>>
                ELSE /\ final_values' =
                            FinalValues(extracted, load_config, target_url)
                     /\ stages_config' =
                            StagesConfig(extracted, cleaned, load_config)
                     /\ gpc' = "await_script"
                     /\ UNCHANGED ai_fallback_called
    /\ UNCHANGED <<genInputs, k6_script, gen_raised>>
    /\ UNCHANGED nonGenVars

\* _extract_parameters_with_ai returns: {} when the call or the JSON parsing
\* failed, else the parsed JSON; the merge, AI values first; a parsed value
\* that is no mapping makes the merge raise, outside any try.
AiParametersReturn ==
    /\ gpc = "await_params"
    /\ IF llm_params_reply.kind = "not_object"
         THEN /\ gen_raised' = TRUE
              /\ gpc' = "done"
              /\ UNCHANGED <<extracted_params, final_values, stages_config>>
         ELSE LET ai_extracted == IF llm_params_reply.kind = "fails"
                                    THEN EmptyDict
                                    ELSE llm_params_reply.value
                  merged       == MergedParameters(extracted_params,
                                                   ai_extracted)
              IN  /\ extracted_params' = merged
                  /\ final_values' =
                         FinalValues(merged, load_config, target_url)
                  /\ stages_config' =
                         StagesConfig(merged, test_description, load_config)
                  /\ gpc' = "await_script"
                  /\ UNCHANGED gen_raised
    /\ UNCHANGED <<genInputs, test_description, regex_params,
                   ai_fallback_called, k6_script>>
    /\ UNCHANGED nonGenVars

\* Regex mode: generate_response returns or raises; parse, clean, return.
RegexScriptReturn ==
    /\ gpc = "await_script"
    /\ k6_script' =
         IF llm_script_reply.kind = "fails" THEN Failure("exception")
         ELSE WithCleanedScript(parse_k6_script_response(llm_script_reply.text))
    /\ gpc' = "done"
    /\ UNCHANGED <<genInputs, test_description, regex_params, extracted_params,
                   ai_fallback_called, final_values, stages_config,
                   gen_raised>>
    /\ UNCHANGED nonGenVars

\* AI mode: generate_response returns or raises; extract, clean, return.
AiScriptReturn ==
    /\ gpc = "await_ai_script"
    /\ k6_script' =
         IF llm_script_reply.kind = "fails" THEN Failure("exception")
         ELSE WithCleanedScript(
                  extract_script_from_response(llm_script_reply.text))
    /\ gpc' = "done"
    /\ UNCHANGED <<genInputs, test_description, regex_params, extracted_params,
                   ai_fallback_called, final_values, stages_config,
                   gen_raised>>
    /\ UNCHANGED nonGenVars

(***************************************************************************)
(* K6AnalysisService (backend/app/services/k6_analysis_service.py).        *)
(* A JSON value of the analysis service's reply is a record: ty is its     *)
(* Python type; a string carries what the parsers can tell apart: its      *)
(* text kind and, for the text of a dict literal, the dict it denotes.     *)
(* A dict is a function from keys to JSON values.  The markdown report is  *)
(* the sequence of its sections.                                           *)
(***************************************************************************)
JStr(text)  == [ty |-> "str",  text |-> text, val |-> EmptyDict]
DictText(d) == [ty |-> "str",  text |-> "dict_literal", val |-> d]
JDict(d)    == [ty |-> "dict", text |-> "", val |-> d]
JList       == [ty |-> "list", text |-> "", val |-> EmptyDict]
FreeText    == JStr("free")       \* prose: no literal, no JSON, no headings
RatedText   == JStr("rated")      \* prose with a "rating: ..." heading line
EmptyText   == JStr("empty")      \* ""
ListText    == JStr("list_literal")   \* "[1, 2]"

\* Python truthiness of a JSON value.
Truthy(v) ==
    IF v.ty = "str" THEN v.text # "empty"
    ELSE IF v.ty = "dict" THEN DOMAIN v.val # {}
    ELSE TRUE

Without(d, keys) == [k \in DOMAIN d \ keys |-> d[k]]
\* d.update(e)
Updated(d, e)    == e @@ d
\* d.get(k) or ...
GetTruthy(d, k)  == Has(d, k) /\ Truthy(d[k])

\* str(x) / json.dumps(x) of a value: text that shows the value.
StrOf(v) == IF v.ty = "str" THEN v ELSE JStr("dump")

\* _parse_analysis_text: the fields recovered from the headings of a text
\* (a rating heading gives the rating under its English and its Chinese
\* key); prose and a bare dict literal yield nothing.
parse_analysis_text(v) ==
    IF v.text = "rated"
      THEN ("performance_rating" :> JStr("free"))
             @@ ("xingneng_pingji" :> JStr("free"))
      ELSE EmptyDict

excluded_fields == {"requirement_text", "Requirement Text", "Status", "status",
                    "test_focus", "filename", "Test Focus", "Analysis"}

\* The metrics of the key-metrics table of the fallback body.
TableMetrics == {"http_req_duration", "http_req_failed", "http_reqs", "vus"}

\* Step 11 of _format_as_markdown: no content section was added.
FallbackBody(analysis_data, metrics) ==
    LET excluded_keys == {"raw_analysis", "test_name", "test_description",
                          "test_requirement", "project_name",
                          "project_description", "key_metrics",
                          "formatted_at", "markdown", "Analysis"}
        data_to_display ==
            { k \in DOMAIN analysis_data \ excluded_keys :
                  analysis_data[k] # EmptyText }
    IN  IF data_to_display # {}
          THEN <<"results">>
               \o (IF DOMAIN metrics # {}
                     THEN <<"metrics_heading">>
                          \o (IF \E m \in DOMAIN metrics \cap TableMetrics :
                                     Truthy(metrics[m])
                                THEN <<"metrics_table">> ELSE <<>>)
                     ELSE <<>>)
               \o <<"details">>
               \o (IF GetTruthy(analysis_data, "raw_analysis")
                     THEN <<"raw_analysis_block">> ELSE <<>>)
          ELSE <<"insufficient_data", "raw_data_dump">>

\* _format_as_markdown for a dict without an "analysis" key: header, test
\* information, the section of a structured field present (the rating
\* stands for the eight structured sections), else the fallback body.
HasRating(analysis_data) ==
    GetTruthy(analysis_data, "performance_rating")
      \/ GetTruthy(analysis_data, "xingneng_pingji")

SectionsOf(analysis_data, metrics) ==
    <<"header", "test_info">>
    \o (IF HasRating(analysis_data)
          THEN <<"performance_rating">>
          ELSE FallbackBody(analysis_data, metrics))

\* _format_as_markdown: with no structured section, an "analysis" string
\* holding a dict literal is formatted in place of the data (step 9), any
\* other non-blank "analysis" string becomes the AI-analysis section.
format_as_markdown(analysis_data, metrics) ==
    LET structured == HasRating(analysis_data)
        a == analysis_data["analysis"]
    IN  IF ~structured /\ Has(analysis_data, "analysis") /\ a.ty = "str"
           /\ a.text = "dict_literal"
          THEN SectionsOf(a.val, metrics)
        ELSE IF ~structured /\ Has(analysis_data, "analysis") /\ a.ty = "str"
                /\ a.text # "empty"
          THEN <<"header", "test_info", "ai_analysis_text">>
        ELSE SectionsOf(analysis_data, metrics)

KeyMetricNames == {"http_req_duration", "http_req_failed", "http_reqs",
                   "iterations", "vus"}
\* "key_metrics": k6_metrics.get(name, {}) for the five names.
KeyMetrics(metrics) ==
    JDict([n \in KeyMetricNames |->
              IF Has(metrics, n) THEN metrics[n] ELSE JDict(EmptyDict)])
\* The caller's texts are not handed on by analyze_performance_results: the
\* formatter sees its defaults.
ReportContext ==
    [n \in {"test_name", "test_description", "test_requirement",
            "project_name", "project_description"} |-> EmptyText]

\* _format_analysis_result(analysis_data, k6_metrics) for a dict.
format_analysis_result(analysis_data, metrics) ==
    LET base == ("key_metrics" :> KeyMetrics(metrics))
                  @@ ("formatted_at" :> JStr("now")) @@ ReportContext
    IN  IF DOMAIN analysis_data = {}
          THEN ("error" :> JStr("empty analysis")) @@ base
          ELSE LET parsed == IF Has(analysis_data, "Analysis")
                                /\ analysis_data["Analysis"].ty = "str"
                               THEN parse_analysis_text(
                                        analysis_data["Analysis"])
                               ELSE EmptyDict
                   data == Without(Updated(analysis_data, parsed),
                                   excluded_fields)
               IN  ("markdown" :> format_as_markdown(data, metrics))
                     @@ data
                     @@ ("raw_analysis" :> JDict(data))
                     @@ base

\* An error return with a report attached.
AnalysisErrorWithReport(msg) ==
    ("status" :> "error") @@ ("error" :> msg) @@ ("generated_at" :> "now")
      @@ ("analysis" :> ("raw_analysis" :> JStr("dump")))

\* The three error returns of analyze_performance_results.
AnalysisError(msg) ==
    ("status" :> "error") @@ ("error" :> msg) @@ ("generated_at" :> "now")

AnalysisSuccess(analysis) ==
    ("status" :> "success") @@ ("analysis" :> analysis)
      @@ ("generated_at" :> "now")

\* The string strategies of analyze_performance_results: a dict or list
\* literal is evaluated, any other text is kept as raw_analysis.
ParseAnalysisString(v) ==
    IF v.text = "dict_literal" THEN JDict(v.val)
    ELSE IF v.text = "list_literal" THEN JList
    ELSE JDict("raw_analysis" :> v)

\* The nested "Analysis" field: a dict, or a text that is a JSON object, is
\* merged into the data; then the fields recovered from the text by
\* _parse_analysis_text are merged and the field is deleted.
MergeAnalysisField(analysis_data) ==
    IF ~Has(analysis_data, "Analysis") THEN analysis_data
    ELSE LET content == analysis_data["Analysis"]
             merged  == IF content.ty = "dict" \/ content.text = "dict_literal"
                          THEN Updated(analysis_data, content.val)
                          ELSE analysis_data
             parsed  == IF Has(merged, "Analysis") /\ merged["Analysis"].ty = "str"
                          THEN parse_analysis_text(merged["Analysis"])
                          ELSE EmptyDict
         IN  IF DOMAIN parsed # {}
               THEN Without(Updated(merged, parsed), {"Analysis"})
               ELSE merged

\* The success path of analyze_performance_results for the parsed reply
\* ai_result.  The data is ai_result["analysis"], else ai_result["data"],
\* else ai_result itself; fields are deleted from it in place, so when the
\* data is (part of) ai_result the fallback to ai_result sees the deletions.
AnalyzeResult(ai_result, metrics) ==
    IF ai_result.ty # "dict"
      THEN AnalysisSuccess("raw_analysis" :> StrOf(ai_result))
    ELSE
      LET R    == ai_result.val
          sel  == IF GetTruthy(R, "analysis") THEN "analysis"
                  ELSE IF GetTruthy(R, "data") THEN "data"
                  ELSE "self"
          v0   == IF sel = "self" THEN ai_result ELSE R[sel]
          v1   == IF v0.ty = "str" THEN ParseAnalysisString(v0) ELSE v0
          d1   == IF v1.ty = "dict" THEN v1.val
                  ELSE ("raw_analysis" :> StrOf(v1))
          d2   == Without(MergeAnalysisField(d1), excluded_fields)
          after == IF sel = "self" THEN d2
                   ELSE IF v0.ty = "dict" THEN (sel :> JDict(d2)) @@ R
                   ELSE R
          analysis_data == IF DOMAIN d2 = {} THEN after ELSE d2
      IN  AnalysisSuccess(format_analysis_result(analysis_data, metrics))

\* What the analysis service does with the request.
AiReply(kind, body) == [kind |-> kind, body |-> body]
NoReply == AiReply("none", EmptyText)

\* Replies of the service and metrics handed to the analysis.
NestedKeys  == {"status", "performance_rating", "foo"}
NestedDicts == UNION { [ks -> {FreeText}] : ks \in SUBSET NestedKeys }
AnalysisValues ==
    {FreeText, EmptyText, ListText, JList}
      \cup { DictText(d) : d \in NestedDicts }
      \cup { JDict(d) : d \in NestedDicts }
DataValues ==
    { JDict("performance_rating" :> FreeText), JDict("status" :> FreeText) }
NestedAnalysisValues ==
    {FreeText, RatedText} \cup { JDict(d) : d \in NestedDicts }
Optional(k, values) == {EmptyDict} \cup { k :> v : v \in values }
ReplyDicts ==
    { a @@ d @@ n @@ s @@ r @@ f :
        a \in Optional("analysis", AnalysisValues),
        d \in Optional("data", DataValues),
        n \in Optional("Analysis", NestedAnalysisValues),
        s \in Optional("status", {FreeText}),
        r \in Optional("performance_rating", {FreeText}),
        f \in Optional("foo", {FreeText}) }
JsonBodies == {JList, FreeText} \cup { JDict(d) : d \in ReplyDicts }
AiReplies ==
    { AiReply(k, EmptyText) :
        k \in {"connect_error", "timeout", "http_error", "invalid_json"} }
      \cup { AiReply("json", b) : b \in JsonBodies }
MetricFields == JDict(("avg" :> JStr("number")) @@ ("max" :> JStr("number")))
K6Metrics ==
    { EmptyDict,
      ("iterations" :> MetricFields),
      ("http_req_duration" :> JDict(EmptyDict)),
      ("http_req_duration" :> MetricFields) @@ ("vus" :> MetricFields) }

\* analyze_performance_results: the prompt is built and the request sent.
AnalyzeCall ==
    /\ apc = "idle"
    /\ apc' = "await_ai"
    /\ UNCHANGED <<k6_metrics, ai_reply, analysis_result>>
    /\ UNCHANGED nonAnaVars

\* client.post raises httpx.RequestError (no connection, timeout).
RequestErrorReturn ==
    /\ apc = "await_ai"
    /\ ai_reply.kind \in {"connect_error", "timeout"}
    /\ analysis_result' = AnalysisError("analysis service unavailable")
    /\ apc' = "done"
    /\ UNCHANGED <<k6_metrics, ai_reply>>
    /\ UNCHANGED nonAnaVars

\* response.raise_for_status() raises httpx.HTTPStatusError.
HttpStatusErrorReturn ==
    /\ apc = "await_ai"
    /\ ai_reply.kind = "http_error"
    /\ analysis_result' = AnalysisError("analysis service error")
    /\ apc' = "done"
    /\ UNCHANGED <<k6_metrics, ai_reply>>
    /\ UNCHANGED nonAnaVars

\* response.json() raises: except Exception.
InvalidJsonReturn ==
    /\ apc = "await_ai"
    /\ ai_reply.kind = "invalid_json"
    /\ analysis_result' = AnalysisError("exception text")
    /\ apc' = "done"
    /\ UNCHANGED <<k6_metrics, ai_reply>>
    /\ UNCHANGED nonAnaVars

\* The reply is parsed: extract the analysis data, format, return.
AiResultReturn ==
    /\ apc = "await_ai"
    /\ ai_reply.kind = "json"
    /\ analysis_result' = AnalyzeResult(ai_reply.body, k6_metrics)
    /\ apc' = "done"
    /\ UNCHANGED <<k6_metrics, ai_reply>>
    /\ UNCHANGED nonAnaVars

(***************************************************************************)
(* K6Executor._parse_k6_summary_json: the summary export of k6 is reduced  *)
(* to the metrics of an allow-list.  A raw metric is a dict of fields or,  *)
(* in a damaged export, a number; its "values" field, when it is a dict,   *)
(* is the sequence of its entries in the order of the file.  A key of a    *)
(* values map is a string: kind tells what it looks like, n is its number: *)
(*   digits "12", decimal "12.5", superscript (a digit character that is   *)
(*   no decimal digit), label "t12".                                       *)
(***************************************************************************)
MaxEntries == 12
KeptValues == 10

Key(kind, n)     == [kind |-> kind, n |-> n]
Entry(key, v)    == [key |-> key, value |-> v]
ValuesDict(items) == [ty |-> "dict", items |-> items]
ValuesList       == [ty |-> "list", items |-> <<>>]
RawMetric(fields) == [ty |-> "dict", val |-> fields]
RawNumber        == [ty |-> "num", val |-> EmptyDict]

\* x[0].isdigit()
isdigit(key) == key.kind \in {"digits", "superscript"}
\* float(x[0]) raises for a digit character that is no decimal digit.
FloatRaises(key) == key.kind = "superscript"
\* key=lambda x: float(x[0]) if x[0].isdigit() else 0
SortKey(item) == IF isdigit(item.key) THEN item.key.n ELSE 0

\* sorted(items, key=...): stable, ascending.
InsertSorted(sorted, item) ==
    LET after == { i \in DOMAIN sorted : SortKey(sorted[i]) <= SortKey(item) }
        at    == IF after = {} THEN 0
                 ELSE CHOOSE i \in after : \A j \in after : j <= i
    IN  SubSeq(sorted, 1, at) \o <<item>> \o SubSeq(sorted, at + 1, Len(sorted))

RECURSIVE SortedItems(_)
SortedItems(items) ==
    IF items = <<>> THEN <<>>
    ELSE InsertSorted(SortedItems(SubSeq(items, 1, Len(items) - 1)),
                      items[Len(items)])

\* if len(values_dict) > 10: dict(sorted_items[-10:]) else values_dict
TrimValues(values_dict) ==
    IF Len(values_dict) > KeptValues
      THEN LET sorted_items == SortedItems(values_dict)
           IN  SubSeq(sorted_items, Len(sorted_items) - KeptValues + 1,
                      Len(sorted_items))
      ELSE values_dict

key_metrics ==
    <<"http_req_duration", "http_req_failed", "http_reqs", "iterations",
      "vus", "vus_max", "data_received", "data_sent", "http_req_waiting",
      "http_req_connecting", "iteration_duration">>

\* Raw field name -> name in the parsed metric.
AggregateFields ==
    ("count" :> "count") @@ ("sum" :> "sum") @@ ("rate" :> "rate")
      @@ ("min" :> "min") @@ ("max" :> "max") @@ ("avg" :> "avg")
      @@ ("med" :> "med") @@ ("p(90)" :> "p90") @@ ("p(95)" :> "p95")
      @@ ("p(99)" :> "p99")

\* The loop body raises: the raw metric is no container, or a key of a
\* long values map cannot be converted.
MetricRaises(metric_data) ==
    \/ metric_data.ty # "dict"
    \/ /\ Has(metric_data.val, "values")
       /\ metric_data.val["values"].ty = "dict"
       /\ Len(metric_data.val["values"].items) > KeptValues
       /\ \E i \in DOMAIN metric_data.val["values"].items :
              FloatRaises(metric_data.val["values"].items[i].key)

\* parsed_metric of one allow-listed metric.
ParsedMetric(metric_data) ==
    LET f      == metric_data.val
        raws   == { r \in DOMAIN AggregateFields : Has(f, r) }
        names  == { AggregateFields[r] : r \in raws }
        RawOf(p) == CHOOSE r \in raws : AggregateFields[r] = p
        fields == [p \in names |-> f[RawOf(p)]]
    IN  IF Has(f, "values") /\ f["values"].ty = "dict"
          THEN ("values" :> ValuesDict(TrimValues(f["values"].items)))
                 @@ fields
          ELSE fields

\* The loop over key_metrics from position i on; an exception ends it and
\* the metrics parsed so far are what the function returns.
RECURSIVE ParseMetricsFrom(_, _, _)
ParseMetricsFrom(k6m, i, acc) ==
    IF i > Len(key_metrics) THEN [metrics |-> acc, raised |-> FALSE]
    ELSE IF ~Has(k6m, key_metrics[i]) THEN ParseMetricsFrom(k6m, i + 1, acc)
    ELSE IF MetricRaises(k6m[key_metrics[i]])
      THEN [metrics |-> acc, raised |-> TRUE]
    ELSE ParseMetricsFrom(k6m, i + 1,
             (key_metrics[i] :> ParsedMetric(k6m[key_metrics[i]])) @@ acc)

\* metrics["root_group"]
RootGroup(root_group) ==
    [n \in {"checks", "http_reqs", "http_req_duration"} |->
        IF Has(root_group, n) THEN root_group[n] ELSE EmptyDict]

parse_k6_summary_json(summary) ==
    LET loop == IF Has(summary, "metrics")
                  THEN ParseMetricsFrom(summary["metrics"], 1, EmptyDict)
                  ELSE [metrics |-> EmptyDict, raised |-> FALSE]
    IN  IF ~loop.raised /\ Has(summary, "root_group")
          THEN ("root_group" :> RootGroup(summary["root_group"]))
                 @@ loop.metrics
          ELSE loop.metrics

\* Summaries: a vus metric with a values map of n entries whose keys are
\* consecutive numbers in some file order, other metrics around it.
KeyKinds   == {"digits", "decimal", "label", "superscript", "mixed"}
FileOrders == {"ascending", "descending", "rotated"}
KindAt(kind, i) ==
    IF kind = "mixed" THEN (IF i % 2 = 0 THEN "digits" ELSE "decimal")
    ELSE kind
NumberAt(order, n, i) ==
    IF order = "ascending" THEN i
    ELSE IF order = "descending" THEN n + 1 - i
    ELSE ((i + 1) % n) + 1
ValuesMap(kind, order, n) ==
    [i \in 1..n |-> Entry(Key(KindAt(kind, NumberAt(order, n, i)),
                              NumberAt(order, n, i)),
                          NumberAt(order, n, i))]
ValuesMaps ==
    { ValuesMap(kind, order, n) :
        kind \in KeyKinds, order \in FileOrders, n \in 0..MaxEntries }
OtherMetrics ==
    { EmptyDict,
      ("http_reqs" :> RawMetric(("count" :> 7) @@ ("rate" :> 3)))
        @@ ("checks" :> RawMetric("rate" :> 1)),
      ("http_reqs" :> RawNumber),
      ("vus_max" :> RawNumber) }
Summaries ==
    { ("metrics" :> (("vus" :> RawMetric(("values" :> ValuesDict(vm))
                                          @@ ("max" :> 5)))
                      @@ other))
        @@ root :
        vm \in ValuesMaps, other \in OtherMetrics,
        root \in {EmptyDict, ("root_group" :> ("checks" :> EmptyDict))} }
      \cup { EmptyDict,
             ("metrics" :> ("vus" :> RawMetric(("values" :> ValuesList)
                                                @@ ("p(95)" :> 4)))) }

\* metrics = self._parse_k6_summary_json(summary_data)
ParseSummary ==
    /\ npc = "idle"
    /\ summary_metrics' = parse_k6_summary_json(summary_data)
    /\ npc' = "done"
    /\ UNCHANGED summary_data
    /\ UNCHANGED nonNormVars

(***************************************************************************)
(* Response times in the analysis prompt and in the report.                *)
(* A number is a record [n, e] standing for n / 1000^e, so that dividing   *)
(* by 1000 is exact.  A formatted value f"{v:.3f}" is the integer of its   *)
(* thousandths.                                                            *)
(***************************************************************************)
Number(n, e)  == [n |-> n, e |-> e]
Millis(x)     == Number(x, 0)
Div1000(v)    == Number(v.n, v.e + 1)
\* v > k, for an integer k.
Greater(v, k) ==
    IF v.e = 0 THEN v.n > k
    ELSE IF v.e = 1 THEN v.n > k * 1000
    ELSE v.n > k * 1000000

\* round-half-even of n / 1000
RoundThousand(n) ==
    LET q == n \div 1000
        r == n % 1000
    IN  IF r > 500 \/ (r = 500 /\ q % 2 = 1) THEN q + 1 ELSE q

\* f"{v:.3f}": the thousandths of v.
Format3(v) ==
    IF v.e = 0 THEN v.n * 1000
    ELSE IF v.e = 1 THEN v.n
    ELSE RoundThousand(v.n)

\* _convert_to_seconds(value): value / 1000.0, 0.0 for None and 0.
convert_to_seconds(value) ==
    IF value.n = 0 THEN Millis(0) ELSE Div1000(value)

DurationFields == {"avg", "min", "max", "p95"}

\* The response-time lines of the analysis prompt.
PromptSeconds(duration) ==
    [f \in DOMAIN duration |-> Format3(convert_to_seconds(Millis(duration[f])))]

\* One cell of the key-metrics table: a value above 100000 is divided by
\* 1000 before the conversion to seconds.
KeyMetricCell(raw) ==
    LET repaired == IF Greater(Millis(raw), 100000) THEN Div1000(Millis(raw))
                    ELSE Millis(raw)
    IN  Format3(Div1000(repaired))

\* The four response-time cells of the key-metrics table; .get(f, 0).
KeyMetricCells(duration) ==
    IF duration = EmptyDict THEN EmptyDict
    ELSE [f \in DurationFields |->
            KeyMetricCell(IF Has(duration, f) THEN duration[f] ELSE 0)]

\* _format_as_markdown_table, a numeric value under a response_time key.
ResponseTimeCell(value) ==
    IF Greater(value, 1000) THEN Format3(Div1000(value))
    ELSE Format3(value)

\* Response times in milliseconds as k6 reports them.
Durations == {0, 250, 1000, 1500, 60000, 100000, 100001, 150250}
DurationMetrics ==
    { d \in [avg : Durations, min : Durations, max : Durations,
              p95 : Durations] :
        d.min <= d.avg /\ d.avg <= d.p95 /\ d.p95 <= d.max }
NoNumber == Number(0, 0)

\* The prompt of analyze_performance_results is built from the metrics.
BuildAnalysisPrompt ==
    /\ rpc = "idle"
    /\ prompt_seconds' = PromptSeconds(http_req_duration)
    /\ rpc' = "prompted"
    /\ UNCHANGED <<http_req_duration, key_metric_cells, summary_value,
                   summary_cell>>
    /\ UNCHANGED nonRepVars

\* _format_as_markdown renders the key-metrics table of the report.
RenderKeyMetrics ==
    /\ rpc = "prompted"
    /\ key_metric_cells' = KeyMetricCells(http_req_duration)
    /\ rpc' = "key_metrics"
    /\ UNCHANGED <<http_req_duration, prompt_seconds, summary_value,
                   summary_cell>>
    /\ UNCHANGED nonRepVars

\* _format_as_markdown_table renders avg_response_time of the payload's
\* key_metrics_summary: the payload carries the engine's value (ms) or the
\* value of the prompt (seconds).
RenderSummaryCell ==
    /\ rpc = "key_metrics"
    /\ \E unit \in {"ms", "s"} :
         summary_value' = IF unit = "ms" THEN Millis(http_req_duration.avg)
                          ELSE Div1000(Millis(http_req_duration.avg))
    /\ summary_cell' = ResponseTimeCell(summary_value')
    /\ rpc' = "done"
    /\ UNCHANGED <<http_req_duration, prompt_seconds, key_metric_cells>>
    /\ UNCHANGED nonRepVars

(***************************************************************************)
(* The string strategies of analyze_performance_results, lines 272-333.    *)
(* A payload string is described by what the parsers see in it:            *)
(*   syntax    json    an object in JSON syntax                            *)
(*             python  a dict literal of Python that is no JSON (single    *)
(*                     quotes, True / False / None)                        *)
(*             pseudo  neither: single quotes with true / false / null     *)
(*             prose   no object at all                                    *)
(*   json_literals    true, false or null occurs as a value                *)
(*   quote_in_string  a string holds a quote of the other kind ("it's")    *)
(*   python_word      a string holds the text True, False or None          *)
(*   indented         the object starts on a later line, after spaces      *)
(*   keys             the keys of the object                               *)
(***************************************************************************)
PayloadKeySets == { {"performance_rating"}, {"performance_rating", "summary"} }
Payloads ==
    { p \in [syntax : {"json", "python", "pseudo", "prose"},
             json_literals : BOOLEAN, quote_in_string : BOOLEAN,
             python_word : BOOLEAN, indented : BOOLEAN,
             keys : PayloadKeySets] :
        /\ p.syntax = "python" => ~p.json_literals
        /\ p.syntax = "pseudo" => p.json_literals
        /\ p.syntax = "prose" => /\ ~p.json_literals /\ ~p.quote_in_string
                                 /\ ~p.python_word
                                 /\ p.keys = {"performance_rating"} }
NoPayload ==
    [syntax |-> "prose", json_literals |-> FALSE, quote_in_string |-> FALSE,
     python_word |-> FALSE, indented |-> FALSE,
     keys |-> {"performance_rating"}]

\* The text is a literal of Python once leading blank lines are gone.
IsPythonLiteral(p) ==
    p.syntax = "python" \/ (p.syntax = "json" /\ ~p.json_literals)

\* ast.literal_eval(analysis_data): an indented object is an
\* IndentationError, a SyntaxError.
LiteralEvalParses(p) == ~p.indented /\ IsPythonLiteral(p)

\* json.loads(analysis_data.replace("'", '"').replace('True', 'true')...):
\* the replacement of the quotes breaks a string that holds one.
NormalizedJsonParses(p) == p.syntax # "prose" /\ ~p.quote_in_string
\* The replacements also rewrite the words inside strings.
NormalizedJsonExact(p) == ~p.python_word

\* cleaned = analysis_data.strip(); ast.literal_eval(cleaned) when it is
\* wrapped in braces.
CleanedLiteralParses(p) == IsPythonLiteral(p)

Structured(p, by, exact) ==
    [kind |-> "structured", keys |-> p.keys, exact |-> exact, by |-> by]
RawAnalysis ==
    [kind |-> "raw_analysis", keys |-> {"raw_analysis"}, exact |-> TRUE,
     by |-> "none"]
NotParsed ==
    [kind |-> "none", keys |-> {}, exact |-> TRUE, by |-> "none"]

\* try: analysis_data = ast.literal_eval(analysis_data)
TryLiteralEval ==
    /\ ppc = "literal_eval"
    /\ IF LiteralEvalParses(payload)
         THEN /\ parsed_payload' = Structured(payload, "literal_eval", TRUE)
              /\ ppc' = "done"
         ELSE /\ ppc' = "normalized_json"
              /\ UNCHANGED parsed_payload
    /\ UNCHANGED payload
    /\ UNCHANGED nonPayVars

\* except (ValueError, SyntaxError): try json.loads of the normalised text
TryNormalizedJson ==
    /\ ppc = "normalized_json"
    /\ IF NormalizedJsonParses(payload)
         THEN /\ parsed_payload' = Structured(payload, "normalized_json",
                                              NormalizedJsonExact(payload))
              /\ ppc' = "done"
         ELSE /\ ppc' = "cleaned_literal"
              /\ UNCHANGED parsed_payload
    /\ UNCHANGED payload
    /\ UNCHANGED nonPayVars

\* except json.JSONDecodeError: literal_eval of the stripped text, else
\* {"raw_analysis": analysis_data}
TryCleanedLiteral ==
    /\ ppc = "cleaned_literal"
    /\ parsed_payload' = IF CleanedLiteralParses(payload)
                           THEN Structured(payload, "cleaned_literal", TRUE)
                           ELSE RawAnalysis
    /\ ppc' = "done"
    /\ UNCHANGED payload
    /\ UNCHANGED nonPayVars

(***************************************************************************)
(* The endpoints of one performance test: execute, the background          *)
(* execution task, the automatic analysis, the analyze endpoint.  Handlers *)
(* and tasks are coroutines of one event loop: a step runs from one await  *)
(* to the next.                                                            *)
(***************************************************************************)
MaxRuns     == 2
MaxAnalyses == 2

Runs     == 1..MaxRuns
Terminal == {"completed", "failed", "timeout", "error"}

NoResults    == [kind |-> "none", metrics |-> FALSE]
ErrorResults == [kind |-> "error", metrics |-> FALSE]
NoAnalysis   == [id |-> 0, kind |-> "none"]

\* The parameters of analyze_performance_results, and the keywords the two
\* callers pass.
AnalyzeParameters ==
    {"performance_test_id", "test_name", "test_description",
     "test_requirement", "project_name", "project_description", "k6_results",
     "k6_metrics", "k6_stdout"}
ManualAnalyzeKeywords == AnalyzeParameters
AutoAnalyzeKeywords   == AnalyzeParameters \cup {"prompt"}
\* A keyword that is no parameter is a TypeError at the call.
CallRaisesTypeError(keywords) == ~(keywords \subseteq AnalyzeParameters)

\* What K6Executor.execute hands to the task.
ExecutorResults ==
    { CompletedResult([kind |-> "exit", returncode |-> rc, stderr |-> err,
                       summary_file |-> sf], "summary",
                      IF sf = "absent" THEN {} ELSE {summary_json_path}) :
        rc \in {0, 1, 99}, err \in {"", "stderr text"},
        sf \in {"valid", "absent"} }
      \cup {TimeoutResult, ErrorResult("cannot launch k6")}

\* A task that leaves the record running when the executor reports an error.
StatusFromResultKeepingRunning(result) ==
    IF Has(result, "error") THEN "running"
    ELSE IF result["status"] = "success" THEN "completed"
    ELSE result["status"]

\* result.get("status", "completed"), success mapped to completed; failed
\* when the result carries an error and its status is failed.
StatusFromResult(result) ==
    LET result_status == IF Has(result, "status") THEN result["status"]
                         ELSE "completed"
        mapped == IF result_status = "success" THEN "completed"
                  ELSE result_status
    IN  IF Has(result, "error") /\ result["error"] # ""
           /\ Has(result, "status") /\ result["status"] = "failed"
          THEN "failed" ELSE mapped

\* results_data: summary, metrics, execution_result, error.
ResultsFromResult(result) ==
    [kind |-> "results", metrics |-> Has(result, "metrics")]

\* An analysis request whose failure erases the stored report.
AnalysisAfterReplyErasing(stored, reply, id) ==
    IF reply.status = "success" THEN [id |-> id, kind |-> reply.kind]
    ELSE NoAnalysis

\* The analysis the analyze endpoint leaves on the record for a reply.
AnalysisAfterReply(stored, reply, id) ==
    IF reply.status = "success" THEN [id |-> id, kind |-> reply.kind]
    ELSE stored

\* Replies of analyze_performance_results: its status and the analysis
\* data (a report with markdown, data without markdown, {}); or it raises.
AnalysisReplies ==
    { [status |-> "success", kind |-> k] :
        k \in {"markdown", "no_markdown", "empty"} }
      \cup { [status |-> "error", kind |-> "none"],
             [status |-> "raises", kind |-> "none"] }

FreeRuns == { t \in Runs : exec_tasks[t] = "unused" }
Unfinished == { t \in Runs : exec_tasks[t] \in {"scheduled", "running_k6"} }

\* POST /{id}/execute
ExecuteRequest ==
    /\ FreeRuns # {}
    /\ IF pt_status = "running"
         THEN /\ http_status' = 400
              /\ UNCHANGED <<pt_status, exec_tasks>>
       ELSE IF ~k6_script_set
         THEN /\ http_status' = 400
              /\ UNCHANGED <<pt_status, exec_tasks>>
       ELSE IF ~executor_ready
         THEN /\ http_status' = 500
              /\ UNCHANGED <<pt_status, exec_tasks>>
       ELSE /\ \E t \in FreeRuns :
                 /\ \A u \in FreeRuns : t <= u
                 /\ exec_tasks' = [exec_tasks EXCEPT ![t] = "scheduled"]
            /\ pt_status' = "pending"
            /\ http_status' = 200
    /\ UNCHANGED <<pt_results, pt_analysis, pt_analysis_generated_at, k6_script_set,
                   executor_ready, auto_tasks, manual, analyses>>
    /\ UNCHANGED nonLifeVars

\* PUT /{id} with a k6_script: any text is stored, the empty one too.
UpdateScript ==
    /\ k6_script_set' = ~k6_script_set
    /\ http_status' = 200
    /\ UNCHANGED <<pt_status, pt_results, pt_analysis, pt_analysis_generated_at,
                   executor_ready, exec_tasks, auto_tasks, manual, analyses>>
    /\ UNCHANGED nonLifeVars

\* execute_performance_test_async up to run_in_executor.
TaskStart ==
    /\ \E t \in Runs :
         /\ exec_tasks[t] = "scheduled"
         /\ IF ~k6_script_set \/ ~executor_ready
              THEN /\ pt_status' = "failed"
                   /\ pt_results' = ErrorResults
                   /\ exec_tasks' = [exec_tasks EXCEPT ![t] = "done"]
              ELSE /\ pt_status' = "running"
                   /\ exec_tasks' = [exec_tasks EXCEPT ![t] = "running_k6"]
                   /\ UNCHANGED pt_results
    /\ UNCHANGED <<pt_analysis, pt_analysis_generated_at, k6_script_set,
                   executor_ready, auto_tasks, manual, analyses, http_status>>
    /\ UNCHANGED nonLifeVars

\* execute_performance_test_async after run_in_executor: the executor
\* raised, or returned a result; a completed run starts the automatic
\* analysis.
TaskK6Return ==
    /\ \E t \in Runs :
         /\ exec_tasks[t] = "running_k6"
         /\ exec_tasks' = [exec_tasks EXCEPT ![t] = "done"]
         /\ \/ /\ pt_status' = "failed"
               /\ pt_results' = ErrorResults
               /\ UNCHANGED auto_tasks
            \/ \E result \in ExecutorResults :
                 /\ pt_status' = StatusFromResult(result)
                 /\ pt_results' = ResultsFromResult(result)
                 /\ auto_tasks' =
                      IF pt_status' \in {"completed", "success"}
                        THEN [auto_tasks EXCEPT ![t] = "scheduled"]
                        ELSE auto_tasks
    /\ UNCHANGED <<pt_analysis, pt_analysis_generated_at, k6_script_set,
                   executor_ready, manual, analyses, http_status>>
    /\ UNCHANGED nonLifeVars

\* _auto_analyze_performance_test up to the call of the analysis service;
\* an exception of the call is logged and the task ends.
AutoAnalyze ==
    /\ \E t \in Runs :
         /\ auto_tasks[t] = "scheduled"
         /\ auto_tasks' =
              [auto_tasks EXCEPT ![t] =
                 IF pt_analysis.kind = "markdown" THEN "done"
                 ELSE IF pt_results.kind = "none" THEN "done"
                 ELSE IF pt_status \notin {"completed", "success"} THEN "done"
                 ELSE IF CallRaisesTypeError(AutoAnalyzeKeywords) THEN "done"
                 ELSE "awaiting"]
    /\ UNCHANGED <<pt_status, pt_results, pt_analysis, pt_analysis_generated_at,
                   k6_script_set, executor_ready, exec_tasks, manual,
                   analyses, http_status>>
    /\ UNCHANGED nonLifeVars

\* POST /{id}/analyze up to the call of the analysis service.
AnalyzeRequest ==
    /\ manual = "idle"
    /\ analyses < MaxAnalyses
    /\ IF pt_results.kind = "none"
         THEN http_status' = 400 /\ UNCHANGED manual
       ELSE IF CallRaisesTypeError(ManualAnalyzeKeywords)
         THEN http_status' = 500 /\ UNCHANGED manual
       ELSE manual' = "awaiting" /\ UNCHANGED http_status
    /\ UNCHANGED <<pt_status, pt_results, pt_analysis, pt_analysis_generated_at,
                   k6_script_set, executor_ready, exec_tasks, auto_tasks,
                   analyses>>
    /\ UNCHANGED nonLifeVars

\* analyze_performance_results returns to its caller, which stores the
\* analysis or not.
AnalysisServiceReturn ==
    /\ analyses < MaxAnalyses
    /\ \E reply \in AnalysisReplies :
         \/ /\ manual = "awaiting"
            /\ manual' = "idle"
            /\ pt_analysis' = AnalysisAfterReply(pt_analysis, reply, analyses + 1)
            /\ pt_analysis_generated_at' =
                 IF reply.status = "success" THEN analyses + 1
                 ELSE pt_analysis_generated_at
            /\ http_status' = IF reply.status = "success" THEN 200 ELSE 500
            /\ UNCHANGED auto_tasks
         \/ \E t \in Runs :
              /\ auto_tasks[t] = "awaiting"
              /\ auto_tasks' = [auto_tasks EXCEPT ![t] = "done"]
              /\ LET stores == reply.status = "success"
                                 /\ reply.kind # "empty"
                 IN  /\ pt_analysis' =
                          IF stores THEN [id |-> analyses + 1,
                                          kind |-> reply.kind]
                          ELSE pt_analysis
                     /\ pt_analysis_generated_at' =
                          IF stores THEN analyses + 1
                          ELSE pt_analysis_generated_at
              /\ UNCHANGED <<manual, http_status>>
    /\ analyses' = analyses + 1
    /\ UNCHANGED <<pt_status, pt_results, k6_script_set, executor_ready,
                   exec_tasks>>
    /\ UNCHANGED nonLifeVars

(***************************************************************************)
(* Specifications.                                                         *)
(***************************************************************************)
ExecNext ==
    \/ ExecuteCall
    \/ CreateScriptFile
    \/ MakeTempDir
    \/ RunK6
    \/ CollectResult
    \/ Cleanup

\* One call of K6Executor.execute.
InitExecute ==
    /\ pc = "idle"
    /\ script_content = EmptyScript
    /\ output_format = "summary"
    /\ written_script = EmptyScript
    /\ fs = {}
    /\ cmd = <<>>
    /\ proc = NoProc
    /\ execution_result = EmptyDict
    /\ raised = FALSE
    /\ san_in = EmptyScript
    /\ gen_once = EmptyScript /\ gen_twice = EmptyScript
    /\ exec_once = EmptyScript /\ exec_twice = EmptyScript
    /\ san_n = 0
    /\ gpc = "idle"
    /\ generation_mode = "regex"
    /\ original_description = <<>> /\ test_description = <<>>
    /\ target_url = NoUrl
    /\ load_config = EmptyDict
    /\ llm_params_reply = ParamReply("fails", EmptyDict)
    /\ llm_script_reply = ScriptReply("fails", EmptyScript)
    /\ regex_params = EmptyDict /\ extracted_params = EmptyDict
    /\ ai_fallback_called = FALSE
    /\ final_values = EmptyDict
    /\ stages_config = <<>>
    /\ k6_script = EmptyDict
    /\ gen_raised = FALSE
    /\ apc = "idle"
    /\ k6_metrics = EmptyDict
    /\ ai_reply = NoReply
    /\ analysis_result = EmptyDict
    /\ npc = "idle"
    /\ summary_data = EmptyDict
    /\ summary_metrics = EmptyDict
    /\ rpc = "idle"
    /\ http_req_duration = EmptyDict
    /\ prompt_seconds = EmptyDict
    /\ key_metric_cells = EmptyDict
    /\ summary_value = NoNumber
    /\ summary_cell = 0
    /\ ppc = "idle"
    /\ payload = NoPayload
    /\ parsed_payload = NotParsed
    /\ pt_status = "pending"
    /\ pt_results = NoResults
    /\ pt_analysis = NoAnalysis
    /\ pt_analysis_generated_at = 0
    /\ k6_script_set = TRUE
    /\ executor_ready = TRUE
    /\ exec_tasks = [t \in Runs |-> "unused"]
    /\ auto_tasks = [t \in Runs |-> "none"]
    /\ manual = "idle"
    /\ analyses = 0
    /\ http_status = 0

SpecExecute == InitExecute /\ [][ExecNext]_vars

SanNext == CleanOnce \/ CleanAgain

\* Any script, cleaned once and then once more.
InitSanitize ==
    /\ pc = "idle"
    /\ script_content = EmptyScript
    /\ output_format = "summary"
    /\ written_script = EmptyScript
    /\ fs = {}
    /\ cmd = <<>>
    /\ proc = NoProc
    /\ execution_result = EmptyDict
    /\ raised = FALSE
    /\ san_in \in Scripts
    /\ gen_once = EmptyScript /\ gen_twice = EmptyScript
    /\ exec_once = EmptyScript /\ exec_twice = EmptyScript
    /\ san_n = 0
    /\ gpc = "idle"
    /\ generation_mode = "regex"
    /\ original_description = <<>> /\ test_description = <<>>
    /\ target_url = NoUrl
    /\ load_config = EmptyDict
    /\ llm_params_reply = ParamReply("fails", EmptyDict)
    /\ llm_script_reply = ScriptReply("fails", EmptyScript)
    /\ regex_params = EmptyDict /\ extracted_params = EmptyDict
    /\ ai_fallback_called = FALSE
    /\ final_values = EmptyDict
    /\ stages_config = <<>>
    /\ k6_script = EmptyDict
    /\ gen_raised = FALSE
    /\ apc = "idle"
    /\ k6_metrics = EmptyDict
    /\ ai_reply = NoReply
    /\ analysis_result = EmptyDict
    /\ npc = "idle"
    /\ summary_data = EmptyDict
    /\ summary_metrics = EmptyDict
    /\ rpc = "idle"
    /\ http_req_duration = EmptyDict
    /\ prompt_seconds = EmptyDict
    /\ key_metric_cells = EmptyDict
    /\ summary_value = NoNumber
    /\ summary_cell = 0
    /\ ppc = "idle"
    /\ payload = NoPayload
    /\ parsed_payload = NotParsed
    /\ pt_status = "pending"
    /\ pt_results = NoResults
    /\ pt_analysis = NoAnalysis
    /\ pt_analysis_generated_at = 0
    /\ k6_script_set = TRUE
    /\ executor_ready = TRUE
    /\ exec_tasks = [t \in Runs |-> "unused"]
    /\ auto_tasks = [t \in Runs |-> "none"]
    /\ manual = "idle"
    /\ analyses = 0
    /\ http_status = 0

SpecSanitize == InitSanitize /\ [][SanNext]_vars

GenNext ==
    \/ GenerateByAiDirect
    \/ GenerateByRegex
    \/ AiParametersReturn
    \/ RegexScriptReturn
    \/ AiScriptReturn

\* One call of generate: any description, a service that answers the script
\* prompt with a valid script or fails.  AI mode reads neither load_config
\* nor the description's parameters and never asks for parameters, and the
\* handling of a failing script call does not depend on the parameters: one
\* value of each is enough there.
InitExtraction ==
    /\ pc = "idle"
    /\ script_content = EmptyScript
    /\ output_format = "summary"
    /\ written_script = EmptyScript
    /\ fs = {}
    /\ cmd = <<>>
    /\ proc = NoProc
    /\ execution_result = EmptyDict
    /\ raised = FALSE
    /\ san_in = EmptyScript
    /\ gen_once = EmptyScript /\ gen_twice = EmptyScript
    /\ exec_once = EmptyScript /\ exec_twice = EmptyScript
    /\ san_n = 0
    /\ gpc = "idle"
    /\ generation_mode \in {"regex", "ai"}
    /\ original_description \in Descriptions
    /\ test_description = original_description
    /\ target_url = NoUrl
    /\ load_config \in LoadConfigs
    /\ llm_params_reply \in ParamReplies
    /\ llm_script_reply \in { ScriptReply("fails", EmptyScript),
                              ScriptReply("text", ValidScriptText) }
    /\ generation_mode = "ai" =>
          /\ original_description \in FixedDescriptions
          /\ load_config = EmptyDict
          /\ llm_params_reply = ParamReply("fails", EmptyDict)
    /\ llm_script_reply.kind = "fails" =>
          /\ load_config = EmptyDict
          /\ llm_params_reply = ParamReply("fails", EmptyDict)
    /\ regex_params = EmptyDict /\ extracted_params = EmptyDict
    /\ ai_fallback_called = FALSE
    /\ final_values = EmptyDict
    /\ stages_config = <<>>
    /\ k6_script = EmptyDict
    /\ gen_raised = FALSE
    /\ apc = "idle"
    /\ k6_metrics = EmptyDict
    /\ ai_reply = NoReply
    /\ analysis_result = EmptyDict
    /\ npc = "idle"
    /\ summary_data = EmptyDict
    /\ summary_metrics = EmptyDict
    /\ rpc = "idle"
    /\ http_req_duration = EmptyDict
    /\ prompt_seconds = EmptyDict
    /\ key_metric_cells = EmptyDict
    /\ summary_value = NoNumber
    /\ summary_cell = 0
    /\ ppc = "idle"
    /\ payload = NoPayload
    /\ parsed_payload = NotParsed
    /\ pt_status = "pending"
    /\ pt_results = NoResults
    /\ pt_analysis = NoAnalysis
    /\ pt_analysis_generated_at = 0
    /\ k6_script_set = TRUE
    /\ executor_ready = TRUE
    /\ exec_tasks = [t \in Runs |-> "unused"]
    /\ auto_tasks = [t \in Runs |-> "none"]
    /\ manual = "idle"
    /\ analyses = 0
    /\ http_status = 0

SpecExtraction == InitExtraction /\ [][GenNext]_vars

\* One call of generate: a fixed description, any answer to the script
\* prompt.
InitCompose ==
    /\ pc = "idle"
    /\ script_content = EmptyScript
    /\ output_format = "summary"
    /\ written_script = EmptyScript
    /\ fs = {}
    /\ cmd = <<>>
    /\ proc = NoProc
    /\ execution_result = EmptyDict
    /\ raised = FALSE
    /\ san_in = EmptyScript
    /\ gen_once = EmptyScript /\ gen_twice = EmptyScript
    /\ exec_once = EmptyScript /\ exec_twice = EmptyScript
    /\ san_n = 0
    /\ gpc = "idle"
    /\ generation_mode \in {"regex", "ai"}
    /\ original_description \in FixedDescriptions
    /\ test_description = original_description
    /\ target_url \in TargetUrls
    /\ load_config = EmptyDict
    /\ llm_params_reply \in { ParamReply("fails", EmptyDict),
                              ParamReply("object", ("vus" :> 200)) }
    /\ llm_script_reply \in ScriptReplies
    /\ regex_params = EmptyDict /\ extracted_params = EmptyDict
    /\ ai_fallback_called = FALSE
    /\ final_values = EmptyDict
    /\ stages_config = <<>>
    /\ k6_script = EmptyDict
    /\ gen_raised = FALSE
    /\ apc = "idle"
    /\ k6_metrics = EmptyDict
    /\ ai_reply = NoReply
    /\ analysis_result = EmptyDict
    /\ npc = "idle"
    /\ summary_data = EmptyDict
    /\ summary_metrics = EmptyDict
    /\ rpc = "idle"
    /\ http_req_duration = EmptyDict
    /\ prompt_seconds = EmptyDict
    /\ key_metric_cells = EmptyDict
    /\ summary_value = NoNumber
    /\ summary_cell = 0
    /\ ppc = "idle"
    /\ payload = NoPayload
    /\ parsed_payload = NotParsed
    /\ pt_status = "pending"
    /\ pt_results = NoResults
    /\ pt_analysis = NoAnalysis
    /\ pt_analysis_generated_at = 0
    /\ k6_script_set = TRUE
    /\ executor_ready = TRUE
    /\ exec_tasks = [t \in Runs |-> "unused"]
    /\ auto_tasks = [t \in Runs |-> "none"]
    /\ manual = "idle"
    /\ analyses = 0
    /\ http_status = 0

SpecCompose == InitCompose /\ [][GenNext]_vars

AnaNext ==
    \/ AnalyzeCall
    \/ RequestErrorReturn
    \/ HttpStatusErrorReturn
    \/ InvalidJsonReturn
    \/ AiResultReturn

\* One call of analyze_performance_results: any metrics, any behaviour of
\* the analysis service.
InitAnalyze ==
    /\ pc = "idle"
    /\ script_content = EmptyScript
    /\ output_format = "summary"
    /\ written_script = EmptyScript
    /\ fs = {}
    /\ cmd = <<>>
    /\ proc = NoProc
    /\ execution_result = EmptyDict
    /\ raised = FALSE
    /\ san_in = EmptyScript
    /\ gen_once = EmptyScript /\ gen_twice = EmptyScript
    /\ exec_once = EmptyScript /\ exec_twice = EmptyScript
    /\ san_n = 0
    /\ gpc = "idle"
    /\ generation_mode = "regex"
    /\ original_description = <<>> /\ test_description = <<>>
    /\ target_url = NoUrl
    /\ load_config = EmptyDict
    /\ llm_params_reply = ParamReply("fails", EmptyDict)
    /\ llm_script_reply = ScriptReply("fails", EmptyScript)
    /\ regex_params = EmptyDict /\ extracted_params = EmptyDict
    /\ ai_fallback_called = FALSE
    /\ final_values = EmptyDict
    /\ stages_config = <<>>
    /\ k6_script = EmptyDict
    /\ gen_raised = FALSE
    /\ apc = "idle"
    /\ k6_metrics \in K6Metrics
    /\ ai_reply \in AiReplies
    /\ analysis_result = EmptyDict
    /\ npc = "idle"
    /\ summary_data = EmptyDict
    /\ summary_metrics = EmptyDict
    /\ rpc = "idle"
    /\ http_req_duration = EmptyDict
    /\ prompt_seconds = EmptyDict
    /\ key_metric_cells = EmptyDict
    /\ summary_value = NoNumber
    /\ summary_cell = 0
    /\ ppc = "idle"
    /\ payload = NoPayload
    /\ parsed_payload = NotParsed
    /\ pt_status = "pending"
    /\ pt_results = NoResults
    /\ pt_analysis = NoAnalysis
    /\ pt_analysis_generated_at = 0
    /\ k6_script_set = TRUE
    /\ executor_ready = TRUE
    /\ exec_tasks = [t \in Runs |-> "unused"]
    /\ auto_tasks = [t \in Runs |-> "none"]
    /\ manual = "idle"
    /\ analyses = 0
    /\ http_status = 0

SpecAnalyze == InitAnalyze /\ [][AnaNext]_vars

NormNext == ParseSummary

\* One call of _parse_k6_summary_json on any summary.
InitNormalize ==
    /\ pc = "idle"
    /\ script_content = EmptyScript
    /\ output_format = "summary"
    /\ written_script = EmptyScript
    /\ fs = {}
    /\ cmd = <<>>
    /\ proc = NoProc
    /\ execution_result = EmptyDict
    /\ raised = FALSE
    /\ san_in = EmptyScript
    /\ gen_once = EmptyScript /\ gen_twice = EmptyScript
    /\ exec_once = EmptyScript /\ exec_twice = EmptyScript
    /\ san_n = 0
    /\ gpc = "idle"
    /\ generation_mode = "regex"
    /\ original_description = <<>> /\ test_description = <<>>
    /\ target_url = NoUrl
    /\ load_config = EmptyDict
    /\ llm_params_reply = ParamReply("fails", EmptyDict)
    /\ llm_script_reply = ScriptReply("fails", EmptyScript)
    /\ regex_params = EmptyDict /\ extracted_params = EmptyDict
    /\ ai_fallback_called = FALSE
    /\ final_values = EmptyDict
    /\ stages_config = <<>>
    /\ k6_script = EmptyDict
    /\ gen_raised = FALSE
    /\ apc = "idle"
    /\ k6_metrics = EmptyDict
    /\ ai_reply = NoReply
    /\ analysis_result = EmptyDict
    /\ npc = "idle"
    /\ summary_data \in Summaries
    /\ summary_metrics = EmptyDict
    /\ rpc = "idle"
    /\ http_req_duration = EmptyDict
    /\ prompt_seconds = EmptyDict
    /\ key_metric_cells = EmptyDict
    /\ summary_value = NoNumber
    /\ summary_cell = 0
    /\ ppc = "idle"
    /\ payload = NoPayload
    /\ parsed_payload = NotParsed
    /\ pt_status = "pending"
    /\ pt_results = NoResults
    /\ pt_analysis = NoAnalysis
    /\ pt_analysis_generated_at = 0
    /\ k6_script_set = TRUE
    /\ executor_ready = TRUE
    /\ exec_tasks = [t \in Runs |-> "unused"]
    /\ auto_tasks = [t \in Runs |-> "none"]
    /\ manual = "idle"
    /\ analyses = 0
    /\ http_status = 0

SpecNormalize == InitNormalize /\ [][NormNext]_vars

RepNext ==
    \/ BuildAnalysisPrompt
    \/ RenderKeyMetrics
    \/ RenderSummaryCell

\* The response times of one run, from the prompt to the report.
InitReport ==
    /\ pc = "idle"
    /\ script_content = EmptyScript
    /\ output_format = "summary"
    /\ written_script = EmptyScript
    /\ fs = {}
    /\ cmd = <<>>
    /\ proc = NoProc
    /\ execution_result = EmptyDict
    /\ raised = FALSE
    /\ san_in = EmptyScript
    /\ gen_once = EmptyScript /\ gen_twice = EmptyScript
    /\ exec_once = EmptyScript /\ exec_twice = EmptyScript
    /\ san_n = 0
    /\ gpc = "idle"
    /\ generation_mode = "regex"
    /\ original_description = <<>> /\ test_description = <<>>
    /\ target_url = NoUrl
    /\ load_config = EmptyDict
    /\ llm_params_reply = ParamReply("fails", EmptyDict)
    /\ llm_script_reply = ScriptReply("fails", EmptyScript)
    /\ regex_params = EmptyDict /\ extracted_params = EmptyDict
    /\ ai_fallback_called = FALSE
    /\ final_values = EmptyDict
    /\ stages_config = <<>>
    /\ k6_script = EmptyDict
    /\ gen_raised = FALSE
    /\ apc = "idle"
    /\ k6_metrics = EmptyDict
    /\ ai_reply = NoReply
    /\ analysis_result = EmptyDict
    /\ npc = "idle"
    /\ summary_data = EmptyDict
    /\ summary_metrics = EmptyDict
    /\ rpc = "idle"
    /\ http_req_duration \in DurationMetrics
    /\ prompt_seconds = EmptyDict
    /\ key_metric_cells = EmptyDict
    /\ summary_value = NoNumber
    /\ summary_cell = 0
    /\ ppc = "idle"
    /\ payload = NoPayload
    /\ parsed_payload = NotParsed
    /\ pt_status = "pending"
    /\ pt_results = NoResults
    /\ pt_analysis = NoAnalysis
    /\ pt_analysis_generated_at = 0
    /\ k6_script_set = TRUE
    /\ executor_ready = TRUE
    /\ exec_tasks = [t \in Runs |-> "unused"]
    /\ auto_tasks = [t \in Runs |-> "none"]
    /\ manual = "idle"
    /\ analyses = 0
    /\ http_status = 0

SpecReport == InitReport /\ [][RepNext]_vars

PayNext ==
    \/ TryLiteralEval
    \/ TryNormalizedJson
    \/ TryCleanedLiteral

\* One payload string handed to the strategies.
InitPayload ==
    /\ pc = "idle"
    /\ script_content = EmptyScript
    /\ output_format = "summary"
    /\ written_script = EmptyScript
    /\ fs = {}
    /\ cmd = <<>>
    /\ proc = NoProc
    /\ execution_result = EmptyDict
    /\ raised = FALSE
    /\ san_in = EmptyScript
    /\ gen_once = EmptyScript /\ gen_twice = EmptyScript
    /\ exec_once = EmptyScript /\ exec_twice = EmptyScript
    /\ san_n = 0
    /\ gpc = "idle"
    /\ generation_mode = "regex"
    /\ original_description = <<>> /\ test_description = <<>>
    /\ target_url = NoUrl
    /\ load_config = EmptyDict
    /\ llm_params_reply = ParamReply("fails", EmptyDict)
    /\ llm_script_reply = ScriptReply("fails", EmptyScript)
    /\ regex_params = EmptyDict /\ extracted_params = EmptyDict
    /\ ai_fallback_called = FALSE
    /\ final_values = EmptyDict
    /\ stages_config = <<>>
    /\ k6_script = EmptyDict
    /\ gen_raised = FALSE
    /\ apc = "idle"
    /\ k6_metrics = EmptyDict
    /\ ai_reply = NoReply
    /\ analysis_result = EmptyDict
    /\ npc = "idle"
    /\ summary_data = EmptyDict
    /\ summary_metrics = EmptyDict
    /\ rpc = "idle"
    /\ http_req_duration = EmptyDict
    /\ prompt_seconds = EmptyDict
    /\ key_metric_cells = EmptyDict
    /\ summary_value = NoNumber
    /\ summary_cell = 0
    /\ ppc = "literal_eval"
    /\ payload \in Payloads
    /\ parsed_payload = NotParsed
    /\ pt_status = "pending"
    /\ pt_results = NoResults
    /\ pt_analysis = NoAnalysis
    /\ pt_analysis_generated_at = 0
    /\ k6_script_set = TRUE
    /\ executor_ready = TRUE
    /\ exec_tasks = [t \in Runs |-> "unused"]
    /\ auto_tasks = [t \in Runs |-> "none"]
    /\ manual = "idle"
    /\ analyses = 0
    /\ http_status = 0

SpecPayload == InitPayload /\ [][PayNext]_vars

LifeNext ==
    \/ ExecuteRequest
    \/ UpdateScript
    \/ TaskStart
    \/ TaskK6Return
    \/ AutoAnalyze
    \/ AnalyzeRequest
    \/ AnalysisServiceReturn

\* A performance test as create_performance_test stores it.
InitLifecycle ==
    /\ pc = "idle"
    /\ script_content = EmptyScript
    /\ output_format = "summary"
    /\ written_script = EmptyScript
    /\ fs = {}
    /\ cmd = <<>>
    /\ proc = NoProc
    /\ execution_result = EmptyDict
    /\ raised = FALSE
    /\ san_in = EmptyScript
    /\ gen_once = EmptyScript /\ gen_twice = EmptyScript
    /\ exec_once = EmptyScript /\ exec_twice = EmptyScript
    /\ san_n = 0
    /\ gpc = "idle"
    /\ generation_mode = "regex"
    /\ original_description = <<>> /\ test_description = <<>>
    /\ target_url = NoUrl
    /\ load_config = EmptyDict
    /\ llm_params_reply = ParamReply("fails", EmptyDict)
    /\ llm_script_reply = ScriptReply("fails", EmptyScript)
    /\ regex_params = EmptyDict /\ extracted_params = EmptyDict
    /\ ai_fallback_called = FALSE
    /\ final_values = EmptyDict
    /\ stages_config = <<>>
    /\ k6_script = EmptyDict
    /\ gen_raised = FALSE
    /\ apc = "idle"
    /\ k6_metrics = EmptyDict
    /\ ai_reply = NoReply
    /\ analysis_result = EmptyDict
    /\ npc = "idle"
    /\ summary_data = EmptyDict
    /\ summary_metrics = EmptyDict
    /\ rpc = "idle"
    /\ http_req_duration = EmptyDict
    /\ prompt_seconds = EmptyDict
    /\ key_metric_cells = EmptyDict
    /\ summary_value = NoNumber
    /\ summary_cell = 0
    /\ ppc = "idle"
    /\ payload = NoPayload
    /\ parsed_payload = NotParsed
    /\ pt_status = "pending"
    /\ pt_results = NoResults
    /\ pt_analysis = NoAnalysis
    /\ pt_analysis_generated_at = 0
    /\ k6_script_set = TRUE
    /\ executor_ready \in BOOLEAN
    /\ exec_tasks = [t \in Runs |-> "unused"]
    /\ auto_tasks = [t \in Runs |-> "none"]
    /\ manual = "idle"
    /\ analyses = 0
    /\ http_status = 0

SpecLifecycle == InitLifecycle /\ [][LifeNext]_vars

\* The event loop runs every task that is ready, and a call of the analysis
\* service returns.
SpecLifecycleLive ==
    /\ InitLifecycle
    /\ [][LifeNext]_vars
    /\ WF_vars(TaskStart)
    /\ WF_vars(TaskK6Return)
    /\ WF_vars(AutoAnalyze)
    /\ WF_vars(AnalysisServiceReturn)

(***************************************************************************)
(* Properties of K6Executor.execute.                                       *)
(***************************************************************************)
Returned == pc = "done" /\ ~raised

\* C1: for every exit code of the subprocess, the returned status is
\* completed for 0 and for 99 (thresholds failed) and failed for every
\* other code; the result carries that exit code.
ExitCodeMapsToStatus ==
    (Returned /\ proc.kind = "exit") =>
        /\ Has(execution_result, "exit_code")
        /\ execution_result["exit_code"] = proc.returncode
        /\ execution_result["status"] =
              (IF proc.returncode = 0 \/ proc.returncode = 99
                 THEN "completed" ELSE "failed")

ThresholdFailureReturned ==
    /\ Returned
    /\ proc.kind = "exit"
    /\ proc.returncode = 99
    /\ execution_result["status"] = "completed"

\* C2: when execute has ended, on every exit path, the temporary script
\* file and the temporary directory of the call no longer exist.
TempFilesGoneAfterExecute ==
    pc = "done" => (script_path \notin fs /\ temp_dir \notin fs)

\* C3: execute never raises to its caller; every failure while preparing,
\* constructing or launching the subprocess is returned as status error
\* with the message.
ExecuteNeverRaises ==
    pc = "done" =>
        /\ ~raised
        /\ Has(execution_result, "status")
        /\ (proc.kind = "exception" =>
              execution_result["status"] = "error"
              /\ Has(execution_result, "error"))

\* C4: a subprocess timeout is returned as status timeout, and the result
\* holds no exit code, stdout, summary or metrics.
TimeoutDiscardsOutput ==
    (pc \in {"finally", "done"} /\ proc.kind = "timeout") =>
        /\ execution_result["status"] = "timeout"
        /\ DOMAIN execution_result
             \cap {"exit_code", "stdout", "summary", "metrics"} = {}

TimeoutReturned ==
    Returned /\ proc.kind = "timeout" /\ Has(execution_result, "status")

(***************************************************************************)
(* Properties of the cleaners.                                             *)
(***************************************************************************)
\* C5: cleaning is idempotent, for the generator's and for the executor's
\* cleaner: cleaning the cleaned script returns it unchanged.
CleanIsIdempotent ==
    san_n = 2 => (gen_twice = gen_once /\ exec_twice = exec_once)

CleanedTwiceAfterRemoval ==
    /\ san_n = 2
    /\ gen_once # san_in
    /\ exec_once # san_in
    /\ gen_once # exec_once

\* A line that declares a variable as a metric object named like a
\* built-in metric, and the variables such declarations bind.
DeclaresBuiltin(line) ==
    \E i \in DOMAIN line :
        line[i].k = "decl" /\ line[i].ctor \in MetricCtors /\ IsBuiltin(line[i].m)

BoundToBuiltin(script) ==
    { script[i][j].v : <<i, j>> \in
        { <<i, j>> \in (DOMAIN script) \X (1..2) :
            /\ j \in DOMAIN script[i]
            /\ script[i][j].k = "decl"
            /\ script[i][j].ctor \in MetricCtors
            /\ IsBuiltin(script[i][j].m) } }

MemberAccessOn(line, vs) ==
    \E i \in DOMAIN line : line[i].k = "use" /\ line[i].v \in vs

NoDanglingMetric(out, original) ==
    \A i \in DOMAIN out :
        /\ ~DeclaresBuiltin(out[i])
        /\ ~MemberAccessOn(out[i], BoundToBuiltin(original))

\* C6: after cleaning (either cleaner) no remaining line declares a
\* built-in metric and no remaining line uses member access on a variable
\* bound by such a declaration.
CleanRemovesDeclarationsAndUses ==
    san_n >= 1 =>
        /\ NoDanglingMetric(gen_once, san_in)
        /\ NoDanglingMetric(exec_once, san_in)

(***************************************************************************)
(* Parameter extraction and stage composition.                             *)
(***************************************************************************)
\* Regex mode has extracted the parameters of the description.
Extracted == generation_mode = "regex" /\ gpc # "idle"

\* The prompt has been built: the merged parameters and stages are final.
Composed == Extracted /\ gpc \in {"await_script", "done"} /\ ~gen_raised

RECURSIVE SkipSpaces(_, _)
SkipSpaces(d, i) ==
    IF i <= Len(d) /\ d[i].t = "sp" THEN SkipSpaces(d, i + 1) ELSE i

\* Positions of the number of a phrase "N并发用户" (white space allowed
\* after N).
ConcurrencyPhrases(d) ==
    { i \in DOMAIN d :
        /\ d[i].t = "num"
        /\ LET j == SkipSpaces(d, i + 1)
           IN  /\ j + 1 <= Len(d)
               /\ d[j].t = "bingfa"
               /\ d[j + 1].t = "yonghu" }

FirstConcurrencyPhrase(d) ==
    CHOOSE i \in ConcurrencyPhrases(d) : \A j \in ConcurrencyPhrases(d) : i <= j

RECURSIVE InUrl(_, _)
InUrl(d, i) ==
    /\ i > 1
    /\ d[i].t \in ({"num"} \cup LatinKinds)
    /\ (d[i - 1].t = "url" \/ InUrl(d, i - 1))

UrlNumberPositions(d) == { i \in DOMAIN d : d[i].t = "num" /\ InUrl(d, i) }

\* Numbers that occur inside a URL and nowhere else.
UrlOnlyNumbers(d) ==
    { d[i].n : i \in UrlNumberPositions(d) }
    \ { d[i].n : i \in { j \in DOMAIN d : d[j].t = "num" /\ ~InUrl(d, j) } }

\* The description with every number inside a URL changed.
ChangeUrlDigits(d) ==
    [ i \in DOMAIN d |->
        IF i \in UrlNumberPositions(d) THEN Num(d[i].n + 1) ELSE d[i] ]

NumericFields(params) ==
    [ k \in DOMAIN params \ {"url"} |-> params[k] ]

NumericValues(params) ==
    { IF k \in {"vus", "ramp_up_target"} THEN params[k] ELSE params[k].n :
        k \in DOMAIN params \ {"url"} }

\* C8: a number that occurs only inside a URL is never used for vus, the
\* ramp-up duration or target, the hold duration or the ramp-down duration:
\* the numeric fields are those of the description with the URL's digits
\* changed.
UrlNumbersNeverExtracted ==
    (Extracted /\ UrlOnlyNumbers(original_description) # {})
        => /\ NumericValues(regex_params)
                \cap UrlOnlyNumbers(original_description) = {}
           /\ NumericFields(regex_params) =
                NumericFields(extract_parameters_from_description(
                    clean_requirement_text(
                        ChangeUrlDigits(original_description))))

\* "在 3s 内加到 100 用户，然后持续 30s 保持 121 用户"
CompoundRampExample ==
    <<Tok("cjk"), SP, Num(3), Tok("s"), SP, Tok("nei"), Tok("jia"),
      Tok("dao"), SP, Num(100), SP, Tok("yonghu"), Tok("punct"), Tok("cjk"),
      Tok("chixu"), SP, Num(30), Tok("s"), SP, Tok("baochi"), SP,
      Num(121), SP, Tok("yonghu")>>

\* C9: for the description "在 3s 内加到 100 用户，然后持续 30s 保持 121
\* 用户" extraction yields ramp-up 3s to 100 and hold 30s, and the stages
\* are (3s,100), (30s,121), (1s,0).
CompoundRampStages ==
    (Composed /\ original_description = CompoundRampExample)
        => /\ Has(regex_params, "ramp_up_duration")
           /\ regex_params["ramp_up_duration"] = Seconds(3)
           /\ Has(regex_params, "ramp_up_target")
           /\ regex_params["ramp_up_target"] = 100
           /\ Has(regex_params, "duration")
           /\ regex_params["duration"] = Seconds(30)
           /\ stages_config = << Stage(Seconds(3), 100),
                                 Stage(Seconds(30), 121),
                                 Stage(Seconds(1), 0) >>

(***************************************************************************)
(* Script validation while composing.                                      *)
(***************************************************************************)
\* generate has returned after the service answered the script prompt.
ReturnedWithResponse ==
    gpc = "done" /\ ~gen_raised /\ llm_script_reply.kind = "text"

\* C10: in both modes, when the service returned a response, a script that
\* fails the validity check never makes generate return status error: the
\* result is success with one of the candidates.
ValidationNeverRejects ==
    ReturnedWithResponse
        => /\ k6_script["status"] = "success"
           /\ k6_script["script"] \in
                IF generation_mode = "ai"
                  THEN { Generator_clean_k6_script(
                             ExtractedCandidate(llm_script_reply.text)),
                         Generator_clean_k6_script(
                             FenceStrippedResponse(llm_script_reply.text)) }
                  ELSE { Generator_clean_k6_script(
                             FencedCandidate(llm_script_reply.text)),
                         Generator_clean_k6_script(
                             Strip(llm_script_reply.text)) }

\* C11: whenever generate returns, in either mode and for every response of
\* the service (an empty or blank one included), the result is either
\* status success with a non-empty script or status error with a message.
SuccessCarriesScript ==
    (gpc = "done" /\ ~gen_raised)
        => \/ /\ k6_script["status"] = "success"
              /\ Has(k6_script, "script")
              /\ ScriptLen(k6_script["script"]) > 0
           \/ /\ k6_script["status"] = "error"
              /\ Has(k6_script, "error")

(***************************************************************************)
(* Properties of K6AnalysisService.analyze_performance_results.            *)
(***************************************************************************)
AnalysisReturned == apc = "done"
Markdown ==
    IF Has(analysis_result, "analysis")
       /\ Has(analysis_result["analysis"], "markdown")
      THEN analysis_result["analysis"]["markdown"]
      ELSE <<>>
InMarkdown(section) == \E i \in DOMAIN Markdown : Markdown[i] = section

\* C12: whenever analyze returns status success, the returned report has a
\* non-empty markdown field, for every shape of the service's reply (dict,
\* empty dict, list, string, wrapper with only echoed fields).
SuccessCarriesMarkdown ==
    (AnalysisReturned /\ analysis_result["status"] = "success")
        => /\ Has(analysis_result["analysis"], "markdown")
           /\ Len(Markdown) > 0

\* The payload of the reply is a text from which no strategy recovers a
\* dict: it is kept as raw_analysis.
PayloadUnparsed ==
    /\ ai_reply.kind = "json"
    /\ ai_reply.body.ty = "dict"
    /\ GetTruthy(ai_reply.body.val, "analysis")
    /\ ai_reply.body.val["analysis"].ty = "str"
    /\ ai_reply.body.val["analysis"].text \notin {"dict_literal", "list_literal"}

\* The metrics hold at least one metric of the key-metrics table.
TableMetricsGiven ==
    \E m \in DOMAIN k6_metrics \cap TableMetrics : Truthy(k6_metrics[m])

\* C13: when no structured field is recovered from the response and the
\* metrics are not empty, analyze returns status success and the markdown
\* holds the metrics table and the raw response text.
UnparsedPayloadGivesMetricsTable ==
    (AnalysisReturned /\ PayloadUnparsed /\ TableMetricsGiven)
        => /\ analysis_result["status"] = "success"
           /\ InMarkdown("metrics_table")
           /\ InMarkdown("raw_data_dump") \/ InMarkdown("raw_analysis_block")

RequestFailed == ai_reply.kind \in {"connect_error", "timeout", "http_error"}

\* C14: when the request to the analysis service fails (no connection,
\* timeout, HTTP error status), analyze returns status error with a message
\* and without an analysis key.
RequestFailureGivesError ==
    (AnalysisReturned /\ RequestFailed)
        => /\ analysis_result["status"] = "error"
           /\ Has(analysis_result, "error")
           /\ ~Has(analysis_result, "analysis")

RequestFailureReturned ==
    /\ AnalysisReturned
    /\ ai_reply.kind = "timeout"
    /\ analysis_result["status"] = "error"

\* C15: whenever the LLM fallback fails in any way (the call errors, its
\* reply cannot be parsed, or the reply is not a field map), generate does
\* not raise and regex-mode generation goes on with exactly the parameters
\* the regexes extracted.
FallbackFailed ==
    /\ ai_fallback_called
    /\ gpc \in {"await_script", "done"}
    /\ llm_params_reply.kind \in {"fails", "not_object"}

FallbackFailureKeepsRegexParams ==
    FallbackFailed => /\ ~gen_raised
                      /\ extracted_params = regex_params

(***************************************************************************)
(* Properties of K6Executor._parse_k6_summary_json.                        *)
(***************************************************************************)
Normalized == npc = "done"
Range(seq) == { seq[i] : i \in DOMAIN seq }

\* The summary holds a vus metric whose values field is a map, and every
\* raw metric of the summary is a dict.
HasRawValues ==
    /\ Has(summary_data, "metrics")
    /\ \A m \in DOMAIN summary_data["metrics"] :
           summary_data["metrics"][m].ty = "dict"
    /\ Has(summary_data["metrics"], "vus")
    /\ Has(summary_data["metrics"]["vus"].val, "values")
    /\ summary_data["metrics"]["vus"].val["values"].ty = "dict"
RawValues == summary_data["metrics"]["vus"].val["values"].items

\* The key is the text of a number; twice its value.
IsNumericString(key) == key.kind \in {"digits", "decimal"}
TwiceNumber(key) == 2 * key.n + (IF key.kind = "decimal" THEN 1 ELSE 0)

\* C16: a values map of more than 10 entries with numeric-string keys comes
\* back with exactly 10 entries, those with the 10 largest numeric keys; a
\* map of at most 10 entries comes back unchanged.
ValuesKeepLastTen ==
    (Normalized /\ HasRawValues
       /\ \A i \in DOMAIN RawValues : IsNumericString(RawValues[i].key))
      => /\ Has(summary_metrics, "vus")
         /\ Has(summary_metrics["vus"], "values")
         /\ LET kept == summary_metrics["vus"]["values"].items
            IN  IF Len(RawValues) > KeptValues
                  THEN /\ Len(kept) = KeptValues
                       /\ Range(kept) \subseteq Range(RawValues)
                       /\ \A k \in Range(kept) :
                            \A d \in Range(RawValues) \ Range(kept) :
                                TwiceNumber(k.key) > TwiceNumber(d.key)
                  ELSE kept = RawValues

\* C17: when the summary file is absent or cannot be parsed after the
\* subprocess ended, execute returns the status and the exit code it
\* returns for the same exit with a readable summary, the result has no
\* metrics, and the condition is recorded in the result.
SummaryUnreadable ==
    /\ Returned
    /\ proc.kind = "exit"
    /\ proc.summary_file # "valid"

SummaryUnreadableKeepsStatus ==
    SummaryUnreadable =>
        LET readable == CompletedResult([proc EXCEPT !.summary_file = "valid"],
                                        output_format, {summary_json_path})
        IN  /\ execution_result["status"] = readable["status"]
            /\ execution_result["exit_code"] = proc.returncode
            /\ readable["exit_code"] = proc.returncode
            /\ ~Has(execution_result, "metrics")
            /\ Has(execution_result, "summary")
            /\ execution_result["summary"]
                   \in {"error: unparsable", "error: summary file missing"}

SummaryCorruptReturned ==
    /\ SummaryUnreadable
    /\ proc.summary_file = "corrupt"
    /\ execution_result["status"] = "completed"

\* C18: the stage sequence built in regex mode has exactly three stages
\* and ends with target 0: with a ramp-up target present and different from
\* the final VUs it is (ramp-up, ramp-up target), (hold, final VUs),
\* (ramp-down, 0), otherwise (ramp-up, final VUs), (hold, final VUs),
\* (ramp-down, 0); the ramp-down duration defaults to 1s.
StagesFollowRampTarget ==
    Composed =>
        LET ramp_up   == RampUpDuration(extracted_params, test_description,
                                        final_values.duration)
            ramp_down == IF Has(extracted_params, "ramp_down_duration")
                           THEN extracted_params["ramp_down_duration"]
                           ELSE Seconds(1)
            first     == IF Has(extracted_params, "ramp_up_target")
                            /\ extracted_params["ramp_up_target"]
                                   # final_values.vus
                           THEN extracted_params["ramp_up_target"]
                           ELSE final_values.vus
        IN  stages_config = << Stage(ramp_up, first),
                               Stage(final_values.duration, final_values.vus),
                               Stage(ramp_down, 0) >>

\* C19: the final values are resolved by presence: the extracted value
\* whenever one was extracted, else the load_config value when given, else
\* the default (10 VUs, 30s); the extracted URL, else target_url.
FinalValuesCoalesce ==
    Composed =>
        /\ final_values.vus =
             IF Has(extracted_params, "vus") THEN extracted_params["vus"]
             ELSE IF Has(load_config, "vus") THEN load_config["vus"]
             ELSE 10
        /\ final_values.duration =
             IF Has(extracted_params, "duration")
               THEN extracted_params["duration"]
             ELSE IF Has(load_config, "duration") THEN load_config["duration"]
             ELSE Seconds(30)
        /\ final_values.url =
             IF Has(extracted_params, "url") THEN extracted_params["url"]
             ELSE target_url

\* The fallback was used and its answer merged.
FallbackMerged ==
    /\ Composed
    /\ ai_fallback_called
AiExtracted ==
    IF llm_params_reply.kind = "object" THEN llm_params_reply.value
    ELSE EmptyDict
ParameterFields ==
    DOMAIN regex_params \cup DOMAIN AiExtracted \cup DOMAIN extracted_params
      \cup {"vus", "duration", "url", "ramp_up_duration", "ramp_up_target",
            "ramp_down_duration"}

\* C20: after the fallback, every field of the merged parameters holds the
\* LLM's value if the LLM returned the field, else the regex value; a field
\* returned by neither is unset.
MergePrefersAiValues ==
    FallbackMerged =>
        \A f \in ParameterFields :
            IF Has(AiExtracted, f)
              THEN Has(extracted_params, f)
                     /\ extracted_params[f] = AiExtracted[f]
            ELSE IF Has(regex_params, f)
              THEN Has(extracted_params, f)
                     /\ extracted_params[f] = regex_params[f]
            ELSE ~Has(extracted_params, f)

AiValueReplacedRegexValue ==
    /\ FallbackMerged
    /\ Has(regex_params, "vus") /\ Has(AiExtracted, "vus")
    /\ regex_params["vus"] = 100
    /\ extracted_params["vus"] = 200

\* The command line has been built and handed to subprocess.run.
CommandBuilt == proc.kind # "none"
ArgAfter(c, opt, arg) ==
    \E i \in DOMAIN c : i < Len(c) /\ c[i] = opt /\ c[i + 1] = arg

\* C21: the command line built by execute asks for the summary export to
\* summary.json in the temporary directory whatever the output format is,
\* and asks for the time-series JSON output exactly when the format is full.
CommandRequestsSummaryExport ==
    CommandBuilt =>
        /\ ArgAfter(cmd, "--summary-export", summary_json_path)
        /\ InCmd(cmd, "--out") <=> output_format = "full"

\* The keys of the result whose value is a path of a file of this call.
ArtifactPathKeys == {"script_path", "detailed_json_path"}

\* C30: every file path in the result of execute names a file that exists
\* when execute has returned; with format full and detailed_json_path in
\* the result, the detailed JSON file exists after the call.
ReturnedPathsExist ==
    Returned =>
        \A k \in ArtifactPathKeys :
            Has(execution_result, k) => execution_result[k] \in fs

\* C29: the sanitizer of the generator and the sanitizer of the executor
\* return the same cleaned script for every script.
SanitizersAgree ==
    san_n >= 1 => gen_once = exec_once

\* The allow-listed metrics of the summary whose raw value is an object.
RawMetricsOf(summary) ==
    IF Has(summary, "metrics") THEN summary["metrics"] ELSE EmptyDict
AllowListed(m) == m \in Range(key_metrics)

\* C24: for every allow-listed metric of the raw summary, the normalised
\* metric holds exactly the aggregate fields (count, sum, rate, min, max,
\* avg, med, p90, p95, p99) the raw metric holds, with the raw values; no
\* other aggregate field appears, and a metric outside the allow-list is
\* not in the output.
AggregatesCopiedThrough ==
    Normalized =>
        \A m \in DOMAIN RawMetricsOf(summary_data) :
            LET raw == RawMetricsOf(summary_data)[m]
            IN  IF ~AllowListed(m) THEN ~Has(summary_metrics, m)
                ELSE raw.ty = "dict" =>
                    /\ Has(summary_metrics, m)
                    /\ \A r \in DOMAIN AggregateFields :
                         IF Has(raw.val, r)
                           THEN /\ Has(summary_metrics[m], AggregateFields[r])
                                /\ summary_metrics[m][AggregateFields[r]]
                                       = raw.val[r]
                           ELSE ~Has(summary_metrics[m], AggregateFields[r])

Reported == rpc = "done"

\* C23: every response time shown in seconds, in the prompt and in the
\* report, is the engine's millisecond value divided by 1000 once, whatever
\* its magnitude (a cell is the thousandths of the seconds shown, that is
\* the milliseconds).
SecondsAreMillisOverThousand ==
    Reported =>
        /\ \A f \in DurationFields :
             /\ prompt_seconds[f] = http_req_duration[f]
             /\ key_metric_cells[f] = http_req_duration[f]
        /\ summary_value = Millis(http_req_duration.avg)
             => summary_cell = http_req_duration.avg

PayloadParsed == ppc = "done"

\* C22: the payload string goes through the chain direct JSON parse,
\* Python-literal parse, JSON parse of the normalised text, and the first
\* success ends it; so every payload that is a valid JSON object comes back
\* as structured data holding the object's keys and values.
JsonObjectsRecovered ==
    (PayloadParsed /\ payload.syntax = "json") =>
        /\ parsed_payload.kind = "structured"
        /\ parsed_payload.keys = payload.keys
        /\ parsed_payload.exact

(***************************************************************************)
(* Properties of the performance-test endpoints.                           *)
(***************************************************************************)
\* C25: executions of one test never overlap: at most one accepted
\* execution of the test is unfinished (scheduled or running) at a time.
ExecutionsNeverOverlap ==
    Cardinality(Unfinished) <= 1

\* A run has finished as completed with results stored, and its automatic
\* analysis has been started.
RunCompleted ==
    /\ pt_status = "completed"
    /\ pt_results.kind = "results"
    /\ \E t \in Runs : auto_tasks[t] = "scheduled"
AnalysisStored ==
    /\ pt_analysis # NoAnalysis
    /\ pt_analysis_generated_at # 0

\* C26: after a run finished as completed with results stored, the
\* automatically started analysis eventually leaves an analysis and its
\* analysis_generated_at on the record.
CompletedRunGetsAnalysis ==
    RunCompleted ~> AnalysisStored

TaskEnds(t) == exec_tasks[t] # "done" /\ exec_tasks'[t] = "done"
NoTaskPending == Unfinished = {}

StoredReport == <<pt_analysis, pt_analysis_generated_at>>
AnalyzeRequestFails ==
    manual = "awaiting" /\ manual' = "idle" /\ http_status' # 200

\* C28: an analysis request that fails leaves analysis and
\* analysis_generated_at as they were; they change only in a step in which
\* an analysis call returns, and then to the new report and its time.
FailedAnalysisKeepsReport ==
    [][ /\ AnalyzeRequestFails => StoredReport' = StoredReport
        /\ StoredReport' # StoredReport =>
             /\ analyses' = analyses + 1
             /\ pt_analysis'.id = analyses'
             /\ pt_analysis'.kind # "none"
             /\ pt_analysis_generated_at' = analyses' ]_vars

ReportSurvivedFailedAnalysis ==
    /\ analyses = 2
    /\ manual = "idle"
    /\ http_status = 500
    /\ pt_analysis.id = 1
    /\ pt_analysis_generated_at = 1
====
